---- MODULE Spec2Model ----
(***************************************************************************)
(* Symbol registry and request pipeline of the hyperliquid-ts SDK.         *)
(*                                                                         *)
(* Strings are sequences of one-character strings, so that template        *)
(* literals, split('/'), includes() and the number regexes are computed    *)
(* as the code computes them.  A JavaScript Map is a sequence of           *)
(* <<key, value>> entries in insertion order together with the identity    *)
(* of the Map object.  An optional value is <<>> (undefined) or <<v>>.     *)
(***************************************************************************)
EXTENDS Integers, Sequences, FiniteSets, TLC

VARIABLES conv, inflight, nextRefresh, lastRefresh, lastQuery, meta,
          api, apiInit, apiTimer, apiInflight, apiStarted, apiSucceeded, caller,
          apiClosed,
          tIn, tFields, tOut, tMode, wOut,
          iCall, iResp, iOut,
          wsc, userClosed,
          now, ticks, posts, wire,
          actions,
          limiter, waiters,
          client, calls,
          subs, unsub, invoked,
          board, boardCalls, boardLog,
          fIn, fOut

vars == <<conv, inflight, nextRefresh, lastRefresh, lastQuery, meta,
          api, apiInit, apiTimer, apiInflight, apiStarted, apiSucceeded, caller,
          apiClosed,
          tIn, tFields, tOut, tMode, wOut,
          iCall, iResp, iOut,
          wsc, userClosed,
          now, ticks, posts, wire,
          actions,
          limiter, waiters,
          client, calls,
          subs, unsub, invoked,
          board, boardCalls, boardLog,
          fIn, fOut>>

convVars == <<conv, inflight, nextRefresh, lastRefresh, lastQuery, meta>>
apiVars == <<api, apiInit, apiTimer, apiInflight, apiStarted, apiSucceeded, caller,
             apiClosed>>
trVars == <<tIn, tFields, tOut, tMode, wOut>>
infoVars == <<iCall, iResp, iOut>>
wsVars == <<wsc, userClosed>>
clockVars == <<now, ticks>>
postVars == <<posts, wire>>
exchangeVars == <<actions>>
rateVars == <<limiter, waiters>>
httpVars == <<client, calls>>
subVars == <<subs, unsub, invoked>>
boardVars == <<board, boardCalls, boardLog>>
filterVars == <<fIn, fOut>>

\* the variables of the parts added to the registry, facade life cycle and
\* translation
extVars == <<infoVars, wsVars, clockVars, postVars, exchangeVars, rateVars,
        httpVars, subVars, boardVars, filterVars>>

\* the variables an action of one part leaves alone
baseVars == <<convVars, apiVars, trVars>>
infoOthers == <<baseVars, wsVars, clockVars, postVars, exchangeVars, rateVars,
        httpVars, subVars, boardVars, filterVars>>
wsOthers == <<baseVars, infoVars, clockVars, postVars, exchangeVars, rateVars,
        httpVars, subVars, boardVars, filterVars>>
disconnectOthers == <<infoVars, clockVars, postVars, exchangeVars, rateVars,
        httpVars, subVars, boardVars, filterVars>>
postOthers == <<baseVars, infoVars, exchangeVars, rateVars,
        httpVars, subVars, boardVars, filterVars>>
exchangeOthers == <<baseVars, infoVars, wsVars, postVars, rateVars,
        httpVars, subVars, boardVars, filterVars>>
rateOthers == <<baseVars, infoVars, wsVars, postVars, exchangeVars,
        httpVars, subVars, boardVars, filterVars>>
httpOthers == <<baseVars, infoVars, wsVars, postVars, exchangeVars, subVars, boardVars, filterVars>>
subOthers == <<baseVars, infoVars, clockVars, postVars, exchangeVars, rateVars,
        httpVars, boardVars, filterVars>>
boardOthers == <<baseVars, infoVars, wsVars, postVars, exchangeVars, rateVars,
        httpVars, subVars, filterVars>>
filterOthers == <<baseVars, infoVars, wsVars, clockVars, postVars, exchangeVars,
        rateVars, httpVars, subVars, boardVars>>

(***************************************************************************)
(* Bounds of the model.                                                    *)
(***************************************************************************)
\* most listings in one universe of a metadata response
MaxUniverse == 2
\* most refreshes one client starts
MaxRefresh == 3
\* most elements of an array or entries of an object in a payload
MaxLen == 2
\* most sockets one WebSocketClient creates
MaxSockets == 4
\* most sendMessage calls waiting for a connection at one time
MaxSends == 1
\* the maxReconnectAttempts the WebSocketClient is constructed with
maxReconnectAttempts == 2
\* most postRequest calls of one client
MaxPosts == 2
\* most advances of the clock
MaxTicks == 3
\* most authenticated actions of one wallet
MaxActions == 2
\* concurrent callers of one RateLimiter
MaxWaiters == 3
\* 'message' listeners added by subscribeToCandle
MaxListeners == 2
\* getLeaderboard calls waiting for their response at one time
MaxBoardCalls == 2
\* rows of a leaderboard
MaxRows == 2
\* calls of a facade
MaxCalls == 2
\* calls of HttpApi itself
MaxHttpCalls == 1

(***************************************************************************)
(* Optional values and strings.                                            *)
(***************************************************************************)
None == <<>>
Some(v) == <<v>>

DigitChars == <<"0", "1", "2", "3", "4", "5", "6", "7", "8", "9">>
IsDigit(c) == \E i \in 1..10 : DigitChars[i] = c
DigitVal(c) == (CHOOSE i \in 1..10 : DigitChars[i] = c) - 1

\* the decimal text of a non-negative integer, as a template literal prints it
RECURSIVE NumToStr(_)
NumToStr(n) ==
    IF n < 10 THEN <<DigitChars[n + 1]>>
    ELSE NumToStr(n \div 10) \o <<DigitChars[(n % 10) + 1]>>

\* String.prototype.includes
Includes(s, sub) ==
    \E i \in 1..(Len(s) - Len(sub) + 1) : SubSeq(s, i, i + Len(sub) - 1) = sub

\* name.split('/')[0]: the text before the first '/', the whole text without one
SplitSlashFirst(s) ==
    IF \E i \in 1..Len(s) : s[i] = "/"
    THEN LET p == CHOOSE i \in 1..Len(s) :
                      s[i] = "/" /\ \A j \in 1..(i - 1) : s[j] # "/"
         IN SubSeq(s, 1, p - 1)
    ELSE s

PERP_MARK == <<"-", "P", "E", "R", "P", "-">>
SPOT_MARK == <<"-", "S", "P", "O", "T", "-">>
DASH == <<"-">>
SPOT_OFFSET == 10000

(***************************************************************************)
(* JavaScript Map: entries in insertion order.                             *)
(***************************************************************************)
EmptyEntries == <<>>

MapHas(entries, k) == \E i \in 1..Len(entries) : entries[i][1] = k

\* Map.prototype.get, as an optional value
MapGet(entries, k) ==
    IF MapHas(entries, k)
    THEN Some(entries[CHOOSE i \in 1..Len(entries) : entries[i][1] = k][2])
    ELSE None

\* Map.prototype.set: an existing key keeps its position, a new one is appended
MapSet(entries, k, v) ==
    IF MapHas(entries, k)
    THEN [i \in 1..Len(entries) |->
             IF entries[i][1] = k THEN <<k, v>> ELSE entries[i]]
    ELSE Append(entries, <<k, v>>)

MapKeys(entries) == {entries[i][1] : i \in 1..Len(entries)}
MapValues(entries) == {entries[i][2] : i \in 1..Len(entries)}

(***************************************************************************)
(* Metadata responses of the venue.                                        *)
(*   k = "reject"   the request failed (makeRequest throws)                *)
(*   k = "notarray" a body that is not a non-empty array with a universe   *)
(*   k = "nullhead" an array whose first element is null                   *)
(*   k = "ok"       [ {universe: [...], tokens: [...]}, ... ]              *)
(***************************************************************************)
\* The venue lists perpetuals by ticker and spot markets by pair name
\* ("A/U") or by "@n"; a perpetual and a spot market never share a name.
PerpNames == {<<"A">>, <<"B">>}

\* the tokens array of the spot metadata: tokens[i].name for i = 0, 1, 2
TokenNames == <<<<"U">>, <<"A">>, <<"H">>>>

\* an entry of the spot universe without any field: {}
EmptyMarket == [name |-> None, tokens |-> None]

\* the spot markets the venue may list: a pair name, a name that is not a
\* pair, and an entry without fields; tokens = [tokenIndexA, tokenIndexB]
SpotMarkets ==
    { [name |-> Some(<<"A", "/", "U">>), tokens |-> Some(<<1, 0>>)],
      [name |-> Some(<<"@", "1">>), tokens |-> Some(<<2, 0>>)],
      EmptyMarket }

\* the venue numbers the entries of the spot universe by their position
WithIndex(u) ==
    [i \in DOMAIN u |->
        [name |-> u[i].name, tokens |-> u[i].tokens, index |-> i - 1]]

PerpUniversesOf(names) ==
    UNION { [1..n -> {[name |-> x] : x \in names}] : n \in 0..MaxUniverse }

SpotUniversesOf(markets) ==
    { WithIndex(u) : u \in UNION { [1..n -> markets] : n \in 0..MaxUniverse } }

FailedResponses ==
    { [k |-> "reject"], [k |-> "notarray"], [k |-> "nullhead"] }

PerpResponsesOf(names) ==
    FailedResponses \cup
    { [k |-> "ok", universe |-> u] : u \in PerpUniversesOf(names) }

SpotResponsesOf(markets) ==
    FailedResponses \cup
    { [k |-> "ok", tokens |-> TokenNames, universe |-> u] :
          u \in SpotUniversesOf(markets) }

PerpResponses == PerpResponsesOf(PerpNames)
SpotResponses == SpotResponsesOf(SpotMarkets)

\* the bodies the refresh life cycle is explored with
LifePerpResponses == PerpResponsesOf({<<"A">>})
LifeSpotResponses ==
    SpotResponsesOf({[name |-> Some(<<"A", "/", "U">>), tokens |-> Some(<<1, 0>>)],
                     EmptyMarket})

(***************************************************************************)
(* BaseInfoAPI: building the two maps.  A build state holds the two maps   *)
(* being filled and whether the code has thrown.                           *)
(***************************************************************************)
NewBuild == [e |-> EmptyEntries, a |-> EmptyEntries, threw |-> FALSE]

\* an internal name without the position
perpInternalName_noIndex(name, index) == name \o <<"-", "P", "E", "R", "P">>

perpInternalName(name, index) == name \o PERP_MARK \o NumToStr(index)
\* an exchange key without the index
perpExchangeName_noIndex(name, index) == name

perpExchangeName(name, index) == name \o DASH \o NumToStr(index)

RECURSIVE PerpForEach(_, _, _)
PerpForEach(universe, i, b) ==
    IF i > Len(universe) \/ b.threw THEN b
    ELSE LET index == i - 1
             internalName == perpInternalName(universe[i].name, index)
             exchangeName == perpExchangeName(universe[i].name, index)
         IN PerpForEach(universe, i + 1,
                [b EXCEPT !.a = MapSet(b.a, internalName, index),
                          !.e = MapSet(b.e, exchangeName, internalName)])

processPerpetualAssets(resp, b) ==
    IF b.threw THEN b
    ELSE IF resp.k = "nullhead" THEN [b EXCEPT !.threw = TRUE]
    ELSE IF resp.k = "ok" THEN PerpForEach(resp.universe, 1, b)
    ELSE b

spotBaseName(name) == SplitSlashFirst(name)
\* an internal name without the index
spotInternalName_noIndex(name, index) ==
    spotBaseName(name) \o <<"-", "S", "P", "O", "T">>

spotInternalName(name, index) == spotBaseName(name) \o SPOT_MARK \o NumToStr(index)
\* an exchange key without the index
spotExchangeName_noIndex(name, index) == name

spotExchangeName(name, index) == name \o DASH \o NumToStr(index)
\* an asset index without the spot offset
spotAssetIndex_noOffset(index) == index

spotAssetIndex(index) == SPOT_OFFSET + index

RECURSIVE SpotForEach(_, _, _)
SpotForEach(universe, i, b) ==
    IF i > Len(universe) \/ b.threw THEN b
    ELSE LET market == universe[i]
         IN IF market.name = None
            THEN [b EXCEPT !.threw = TRUE]
            ELSE LET internalName == spotInternalName(market.name[1], market.index)
                     exchangeName == spotExchangeName(market.name[1], market.index)
                 IN SpotForEach(universe, i + 1,
                        [b EXCEPT !.a = MapSet(b.a, internalName,
                                               spotAssetIndex(market.index)),
                                  !.e = MapSet(b.e, exchangeName, internalName)])

processSpotAssets(resp, b) ==
    IF b.threw THEN b
    ELSE IF resp.k = "nullhead" THEN [b EXCEPT !.threw = TRUE]
    ELSE IF resp.k = "ok" THEN SpotForEach(resp.universe, 1, b)
    ELSE b

(***************************************************************************)
(* SymbolConverter.                                                        *)
(***************************************************************************)
NewConverter ==
    [exchangeToInternalNameMap |-> [id |-> 0, entries |-> EmptyEntries],
     assetToIndexMap |-> [id |-> 0, entries |-> EmptyEntries]]

\* updateMaps that forgets its second assignment
updateMaps_keepsIndexMap(c, exchangeToInternalNameMap, assetToIndexMap) ==
    [exchangeToInternalNameMap |-> exchangeToInternalNameMap,
     assetToIndexMap |-> c.assetToIndexMap]

updateMaps(c, exchangeToInternalNameMap, assetToIndexMap) ==
    [exchangeToInternalNameMap |-> exchangeToInternalNameMap,
     assetToIndexMap |-> assetToIndexMap]

getAssetIndex(c, assetName) == MapGet(c.assetToIndexMap.entries, assetName)

getInternalName(c, exchangeName) ==
    MapGet(c.exchangeToInternalNameMap.entries, exchangeName)

getAllAssets(c) ==
    LET keys == [i \in 1..Len(c.assetToIndexMap.entries) |->
                    c.assetToIndexMap.entries[i][1]]
    IN [perp |-> SelectSeq(keys, LAMBDA k : Includes(k, PERP_MARK)),
        spot |-> SelectSeq(keys, LAMBDA k : ~Includes(k, PERP_MARK)
                                             /\ Includes(k, SPOT_MARK))]

\* the first entry whose value is the symbol, as Array.prototype.find gives it
FindByValue(entries, symbol) ==
    IF \E i \in 1..Len(entries) : entries[i][2] = symbol
    THEN Some(entries[CHOOSE i \in 1..Len(entries) :
                          /\ entries[i][2] = symbol
                          /\ \A j \in 1..(i - 1) : entries[j][2] # symbol][1])
    ELSE None

\* JavaScript truthiness of an optional string
Truthy(o) == o # None /\ o[1] # <<>>

\* convertSymbol without the fall-back to the symbol itself
convertSymbol_noFallback(c, symbol, mode) ==
    IF mode = "reverse"
    THEN LET exchangeSymbol ==
                 FindByValue(c.exchangeToInternalNameMap.entries, symbol)
         IN IF Truthy(exchangeSymbol) THEN exchangeSymbol[1] ELSE <<>>
    ELSE LET rSymbol == MapGet(c.exchangeToInternalNameMap.entries, symbol)
         IN IF ~Truthy(rSymbol) THEN <<>> ELSE rSymbol[1]

\* convertSymbol that translates back what is not an exchange name
convertSymbol_bothWays(c, symbol, mode) ==
    LET exchangeSymbol ==
            FindByValue(c.exchangeToInternalNameMap.entries, symbol)
        rSymbol == MapGet(c.exchangeToInternalNameMap.entries, symbol)
    IN IF mode # "reverse" /\ Truthy(rSymbol) THEN rSymbol[1]
       ELSE IF Truthy(exchangeSymbol) THEN exchangeSymbol[1] ELSE symbol

convertSymbol(c, symbol, mode) ==
    IF mode = "reverse"
    THEN LET exchangeSymbol ==
                 FindByValue(c.exchangeToInternalNameMap.entries, symbol)
         IN IF Truthy(exchangeSymbol) THEN exchangeSymbol[1] ELSE symbol
    ELSE LET rSymbol == MapGet(c.exchangeToInternalNameMap.entries, symbol)
         IN IF ~Truthy(rSymbol) THEN symbol ELSE rSymbol[1]

(***************************************************************************)
(* BaseInfoAPI.refreshAssetMaps.  The two requests are issued when the     *)
(* refresh starts; the code resumes after Promise.all with both bodies or  *)
(* with the first rejection, and runs to its end without suspending.       *)
(***************************************************************************)
RefreshOutcome(perpResp, spotResp) ==
    IF perpResp.k = "reject" \/ spotResp.k = "reject"
    THEN [threw |-> TRUE, e |-> EmptyEntries, a |-> EmptyEntries]
    ELSE processSpotAssets(spotResp, processPerpetualAssets(perpResp, NewBuild))

refreshAssetMaps(c, id, perpResp, spotResp) ==
    LET b == RefreshOutcome(perpResp, spotResp)
    IN IF b.threw THEN c
       ELSE updateMaps(c, [id |-> id, entries |-> b.e],
                          [id |-> id, entries |-> b.a])

\* a body the code cannot read the expected universe list from
Unparsable(resp) ==
    \/ resp.k \in {"notarray", "nullhead"}
    \/ /\ resp.k = "ok"
       /\ \E i \in 1..Len(resp.universe) : resp.universe[i].name = None

(***************************************************************************)
(* HyperliquidAPI: the facade keeps its own two maps and refills them in   *)
(* place.                                                                  *)
(***************************************************************************)
NewApiMaps ==
    [assetToIndexMap |-> EmptyEntries, exchangeToInternalNameMap |-> EmptyEntries]

apiPerpInternalName(name) == name \o <<"-", "P", "E", "R", "P">>
apiSpotInternalName(tokenName) == tokenName \o <<"-", "S", "P", "O", "T">>

RECURSIVE ApiPerpForEach(_, _, _)
ApiPerpForEach(universe, i, b) ==
    IF i > Len(universe) \/ b.threw THEN b
    ELSE LET index == i - 1
             internalName == apiPerpInternalName(universe[i].name)
         IN ApiPerpForEach(universe, i + 1,
                [b EXCEPT !.a = MapSet(b.a, internalName, index),
                          !.e = MapSet(b.e, universe[i].name, internalName)])

apiProcessPerpetualAssets(resp, b) ==
    IF b.threw THEN b
    ELSE IF resp.k = "nullhead" THEN [b EXCEPT !.threw = TRUE]
    ELSE IF resp.k = "ok" THEN ApiPerpForEach(resp.universe, 1, b)
    ELSE b

RECURSIVE ApiSpotForEach(_, _, _)
ApiSpotForEach(resp, i, b) ==
    IF i > Len(resp.universe) \/ b.threw THEN b
    ELSE LET market == resp.universe[i]
             index == i - 1
         IN IF market.tokens = None
            THEN [b EXCEPT !.threw = TRUE]
            ELSE LET t == market.tokens[1][1] + 1
                 IN IF t \in 1..Len(resp.tokens) /\ resp.tokens[t] # <<>>
                    THEN LET internalName == apiSpotInternalName(resp.tokens[t])
                         IN ApiSpotForEach(resp, i + 1,
                                [b EXCEPT !.a = MapSet(b.a, internalName,
                                                       SPOT_OFFSET + index),
                                          !.e = MapSet(b.e, market.name[1],
                                                       internalName)])
                    ELSE ApiSpotForEach(resp, i + 1, b)

apiProcessSpotAssets(resp, b) ==
    IF b.threw THEN b
    ELSE IF resp.k = "nullhead" THEN [b EXCEPT !.threw = TRUE]
    ELSE IF resp.k = "ok" THEN ApiSpotForEach(resp, 1, b)
    ELSE b

\* the maps after the refresh and whether it ran to its end
refreshAssetToIndexMap(m, perpResp, spotResp) ==
    IF perpResp.k = "reject" \/ spotResp.k = "reject"
    THEN [maps |-> m, ok |-> FALSE]
    ELSE LET b == apiProcessSpotAssets(spotResp,
                      apiProcessPerpetualAssets(perpResp, NewBuild))
         IN [maps |-> [assetToIndexMap |-> b.a,
                       exchangeToInternalNameMap |-> b.e],
             ok |-> ~b.threw]

(***************************************************************************)
(* JSON payloads and SymbolConverter.convertSymbolsInObject.               *)
(* A value is <<type, content>>; an object is the sequence of its          *)
(* <<key, value>> entries in the order of Object.entries.  A number is     *)
(* (-1)^neg * m / 10^e with m not divisible by 10 when e > 0.              *)
(***************************************************************************)
JStr(x) == <<"str", x>>
JNum(neg, m, e) == <<"num", <<neg, m, e>>>>
JNull == <<"null", <<>>>>
JArr(q) == <<"arr", q>>
JObj(q) == <<"obj", q>>
TypeOf(x) == x[1]
ContentOf(x) == x[2]

AllDigits(x) == \A i \in 1..Len(x) : IsDigit(x[i])

RECURSIVE DecValue(_)
DecValue(x) ==
    IF x = <<>> THEN 0
    ELSE 10 * DecValue(SubSeq(x, 1, Len(x) - 1)) + DigitVal(x[Len(x)])

Unsigned(x) == IF x # <<>> /\ x[1] = "-" THEN Tail(x) ELSE x

\* /^-?\d+$/
IsIntegerText(x) == Unsigned(x) # <<>> /\ AllDigits(Unsigned(x))

\* /^-?\d*\.\d+$/
IsDecimalText(x) ==
    LET u == Unsigned(x)
    IN \E p \in 1..Len(u) :
           /\ u[p] = "."
           /\ AllDigits(SubSeq(u, 1, p - 1))
           /\ p < Len(u)
           /\ AllDigits(SubSeq(u, p + 1, Len(u)))

RECURSIVE StripZeros(_)
StripZeros(x) ==
    IF x # <<>> /\ x[Len(x)] = "0" THEN StripZeros(SubSeq(x, 1, Len(x) - 1))
    ELSE x

parseInt(x) == JNum(x[1] = "-", DecValue(Unsigned(x)), 0)

parseFloat(x) ==
    LET u == Unsigned(x)
        p == CHOOSE i \in 1..Len(u) : u[i] = "."
        frac == StripZeros(SubSeq(u, p + 1, Len(u)))
    IN JNum(x[1] = "-", DecValue(SubSeq(u, 1, p - 1) \o frac), Len(frac))

convertToNumber(value) ==
    IF TypeOf(value) = "str"
    THEN IF IsIntegerText(ContentOf(value)) THEN parseInt(ContentOf(value))
         ELSE IF IsDecimalText(ContentOf(value)) THEN parseFloat(ContentOf(value))
         ELSE value
    ELSE value

\* convertSymbol applied to the value of a symbol field: a value that is not
\* a string is no key of the map and comes back as it is
convertSymbolValue(c, value) ==
    IF TypeOf(value) = "str"
    THEN JStr(convertSymbol(c, ContentOf(value), ""))
    ELSE value

\* the side codes exchanged
sideValue_swapped(value) ==
    IF value = JStr(<<"A">>) THEN JStr(<<"b", "u", "y">>)
    ELSE IF value = JStr(<<"B">>) THEN JStr(<<"s", "e", "l", "l">>)
    ELSE value

sideValue(value) ==
    IF value = JStr(<<"A">>) THEN JStr(<<"s", "e", "l", "l">>)
    ELSE IF value = JStr(<<"B">>) THEN JStr(<<"b", "u", "y">>)
    ELSE value

RECURSIVE convertSymbolsInObject(_, _, _)
convertSymbolsInObject(c, obj, symbolsFields) ==
    IF TypeOf(obj) \notin {"arr", "obj"} THEN convertToNumber(obj)
    ELSE IF TypeOf(obj) = "arr"
    THEN JArr([i \in 1..Len(ContentOf(obj)) |->
                  convertSymbolsInObject(c, ContentOf(obj)[i], symbolsFields)])
    ELSE JObj([i \in 1..Len(ContentOf(obj)) |->
                  LET key == ContentOf(obj)[i][1]
                      value == ContentOf(obj)[i][2]
                  IN <<key,
                       IF key \in symbolsFields
                       THEN convertSymbolValue(c, value)
                       ELSE IF key = "side"
                       THEN sideValue(value)
                       ELSE convertSymbolsInObject(c, value, symbolsFields)>>])

\* the payloads explored: leaves, arrays and objects of leaves, and these
\* wrapped once more in an array or an object
LeafStrings ==
    { <<"A", "-", "0">>, <<"A">>, <<"B">>, <<"5">>, <<"-", "1", ".", "5", "0">>,
      <<".", "5">>, <<"1", ".">>, <<"-">> }
Leaves == { JStr(x) : x \in LeafStrings } \cup { JNum(FALSE, 7, 0), JNull }
Keys == {"coin", "side", "px"}
FieldSets == { {"coin", "symbol"}, {"s"} }
\* the symbolsFields a caller leaves out
DefaultFields == {"coin", "symbol"}

ArraysOver(S) ==
    { JArr(q) : q \in UNION { [1..n -> S] : n \in 0..MaxLen } }
ObjectsOver(S) ==
    { JObj(q) : q \in { r \in UNION { [1..n -> Keys \X S] : n \in 0..MaxLen } :
                           \A i \in DOMAIN r, j \in DOMAIN r :
                               i # j => r[i][1] # r[j][1] } }
Json1 == Leaves \cup ArraysOver(Leaves) \cup ObjectsOver(Leaves)
Payloads ==
    Json1 \cup { JArr(<<x>>) : x \in Json1 }
          \cup { JObj(<<<<key, x>>>>) : key \in Keys, x \in Json1 }

\* the registries payloads are translated against: an empty one and one
\* built from a perpetual A and a spot market A/U
TranslateRegistries ==
    { NewConverter,
      refreshAssetMaps(NewConverter, 1,
          [k |-> "ok", universe |-> <<[name |-> <<"A">>]>>],
          [k |-> "ok", tokens |-> TokenNames,
           universe |-> <<[name |-> Some(<<"A", "/", "U">>),
                           tokens |-> Some(<<1, 0>>), index |-> 0]>>]) }

(***************************************************************************)
(* WebSocketSubscriptions keeps its own convertSymbol and                  *)
(* convertSymbolsInObject over the forward map it is constructed with.     *)
(* A TypeError thrown during the traversal makes the whole call throw.     *)
(***************************************************************************)
JThrow == <<"throw", <<>>>>

\* String.prototype.endsWith
EndsWith(s, suffix) ==
    Len(s) >= Len(suffix) /\ SubSeq(s, Len(s) - Len(suffix) + 1, Len(s)) = suffix

SPOT_SUFFIX == <<"-", "S", "P", "O", "T">>
PERP_SUFFIX == <<"-", "P", "E", "R", "P">>

\* the market-class hints a caller passes as symbolMode
SymbolModes == {"", "SPOT", "PERP"}

wsConvertSymbol(c, symbol, mode, symbolMode) ==
    LET entries == c.exchangeToInternalNameMap.entries
        found == IF mode = "reverse" THEN FindByValue(entries, symbol)
                 ELSE MapGet(entries, symbol)
        rSymbol == IF Truthy(found) THEN found[1] ELSE symbol
    IN IF symbolMode = "SPOT" /\ ~EndsWith(rSymbol, SPOT_SUFFIX)
       THEN symbol \o SPOT_SUFFIX
       ELSE IF symbolMode = "PERP" /\ ~EndsWith(rSymbol, PERP_SUFFIX)
       THEN symbol \o PERP_SUFFIX
       ELSE rSymbol

\* convertSymbol applied to the value of a symbol field: a value that is not
\* a string is no key of the map and has no endsWith
wsConvertSymbolValue(c, value, symbolMode) ==
    IF TypeOf(value) = "str"
    THEN JStr(wsConvertSymbol(c, ContentOf(value), "", symbolMode))
    ELSE IF symbolMode \in {"SPOT", "PERP"} THEN JThrow
    ELSE value

RECURSIVE wsTraverse(_, _, _, _)
wsTraverse(c, obj, symbolsFields, symbolMode) ==
    IF TypeOf(obj) \notin {"arr", "obj"} THEN convertToNumber(obj)
    ELSE IF TypeOf(obj) = "arr"
    THEN JArr([i \in 1..Len(ContentOf(obj)) |->
                  wsTraverse(c, ContentOf(obj)[i], symbolsFields, symbolMode)])
    ELSE JObj([i \in 1..Len(ContentOf(obj)) |->
                  LET key == ContentOf(obj)[i][1]
                      value == ContentOf(obj)[i][2]
                  IN <<key,
                       IF key \in symbolsFields
                       THEN wsConvertSymbolValue(c, value, symbolMode)
                       ELSE IF key = "side"
                       THEN sideValue(value)
                       ELSE wsTraverse(c, value, symbolsFields, symbolMode)>>])

RECURSIVE HasThrow(_)
HasThrow(x) ==
    \/ x = JThrow
    \/ /\ TypeOf(x) = "arr"
       /\ \E i \in 1..Len(ContentOf(x)) : HasThrow(ContentOf(x)[i])
    \/ /\ TypeOf(x) = "obj"
       /\ \E i \in 1..Len(ContentOf(x)) : HasThrow(ContentOf(x)[i][2])

wsConvertSymbolsInObject(c, obj, symbolsFields, symbolMode) ==
    LET r == wsTraverse(c, obj, symbolsFields, symbolMode)
    IN IF HasThrow(r) THEN JThrow ELSE r

\* the frames translated by both classes
WsPayloads == Json1

(***************************************************************************)
(* WebSocketClient.  A socket is [state, promise]: the state of the        *)
(* WebSocket object and the state of the promise connect() created with    *)
(* it; the handlers connect() attaches stay on the socket for its life.    *)
(*   state:   "connecting", "open", "aborting" (closed by the client      *)
(*            before it opened: 'error', then 'close' are to come),        *)
(*            "closing" ('close' is to come), "closed"                     *)
(*   promise: "pending", "resolved", "rejected"                            *)
(* ws and connectionPromise are 0 (null) or the number of a socket.        *)
(* loops holds the reconnect() calls in progress, sends the sendMessage    *)
(* calls awaiting ensureConnected(). made counts the attempts a            *)
(* reconnect() call has started; reached is -1, or the made of the call    *)
(* that emitted 'maxReconnectAttemptsReached' last. returned is the        *)
(* promise the last connect() call of the user got and the state that      *)
(* promise had at the return.                                              *)
(***************************************************************************)
NewWebSocketClient ==
    [ws |-> 0, sockets |-> <<>>, connectionPromise |-> 0, pingInterval |-> FALSE,
     reconnectAttempts |-> 0, isReconnecting |-> FALSE, messageQueue |-> <<>>,
     loops |-> <<>>, sends |-> <<>>, reached |-> -1,
     returned |-> [p |-> 0, promise |-> "none"]]

RemoveAt(q, i) == SubSeq(q, 1, i - 1) \o SubSeq(q, i + 1, Len(q))

isConnected(c) == c.ws # 0 /\ c.sockets[c.ws].state = "open"

stopPingInterval(c) == [c EXCEPT !.pingInterval = FALSE]

startPingInterval(c) == [stopPingInterval(c) EXCEPT !.pingInterval = TRUE]

\* connect(): the client after the call and the promise it returns
connect(c) ==
    IF c.connectionPromise # 0
    THEN [c |-> c, p |-> c.connectionPromise]
    ELSE LET n == Len(c.sockets) + 1
         IN [c |-> [c EXCEPT !.sockets = Append(@, [state |-> "connecting",
                                                    promise |-> "pending"]),
                             !.ws = n,
                             !.connectionPromise = n],
             p |-> n]

\* sendMessage(message) up to its first suspension: on an open socket the
\* message is sent, otherwise the call awaits the promise of connect()
sendMessage(c, message) ==
    IF isConnected(c) THEN c
    ELSE LET r == connect(c)
         IN [r.c EXCEPT !.sends = Append(@, [p |-> r.p, message |-> message])]

RECURSIVE flushMessageQueue(_)
flushMessageQueue(c) ==
    IF c.messageQueue = <<>> THEN c
    ELSE flushMessageQueue(
             sendMessage([c EXCEPT !.messageQueue = Tail(@)], Head(c.messageQueue)))

onOpen(c) ==
    flushMessageQueue(
        startPingInterval([c EXCEPT !.reconnectAttempts = 0,
                                    !.isReconnecting = FALSE]))

\* one turn of the while loop of reconnect(): a further attempt, or giving up
reconnectLoop(c, made) ==
    IF c.reconnectAttempts < maxReconnectAttempts
    THEN LET r == connect([c EXCEPT !.reconnectAttempts = @ + 1])
         IN [r.c EXCEPT !.loops = Append(@, [pc |-> "connect", p |-> r.p,
                                             made |-> made + 1])]
    ELSE [c EXCEPT !.isReconnecting = FALSE, !.reached = made]

reconnect(c) ==
    IF c.isReconnecting THEN c
    ELSE reconnectLoop([c EXCEPT !.isReconnecting = TRUE], 0)

onClose(c) ==
    LET d == [stopPingInterval(c) EXCEPT !.connectionPromise = 0]
    IN IF ~d.isReconnecting THEN reconnect(d) ELSE d

\* WebSocket.close() of the ws library on the socket the client holds
socketClose(state) ==
    IF state = "open" THEN "closing"
    ELSE IF state = "connecting" THEN "aborting"
    ELSE state

closeClient(c) ==
    LET d == stopPingInterval(c)
    IN [d EXCEPT !.sockets = IF d.ws # 0
                             THEN [@ EXCEPT ![d.ws].state = socketClose(@)]
                             ELSE @,
                 !.ws = 0,
                 !.connectionPromise = 0,
                 !.isReconnecting = FALSE,
                 !.messageQueue = <<>>]

(***************************************************************************)
(* WebSocketSubscriptions.postRequest.  A call is                           *)
(*   [id, status, listener, timer, reason, by, byId, result]                *)
(* id is the correlation id, listener whether responseHandler is           *)
(* registered on the client, timer whether the setTimeout is still to      *)
(* fire; reason, by and byId record what settled the promise: the call     *)
(* the frame answered and the id the frame carried; sending is the socket  *)
(* whose connection promise the call's sendMessage awaits, 0 when it does  *)
(* not wait.  The clock counts milliseconds.                               *)
(***************************************************************************)
WS_TIMEOUT == 30000

NewPost(id) ==
    [id |-> id, status |-> "pending", listener |-> TRUE, timer |-> TRUE,
     reason |-> "none", by |-> 0, byId |-> 0, result |-> JNull, sending |-> 0]

\* resolve() and reject() act on a pending promise only
Resolve(p, reason, by, byId, result) ==
    IF p.status = "pending"
    THEN [p EXCEPT !.status = "resolved", !.reason = reason, !.by = by,
                   !.byId = byId, !.result = result]
    ELSE p

Reject(p, reason, by, byId) ==
    IF p.status = "pending"
    THEN [p EXCEPT !.status = "rejected", !.reason = reason, !.by = by,
                   !.byId = byId]
    ELSE p

\* responseHandler(message) of the call p for a frame of the post channel
responseHandler(c, p, message) ==
    IF p.listener /\ message.id = p.id
    THEN LET q == [p EXCEPT !.listener = FALSE]
         IN IF message.type = "error"
            THEN Reject(q, "error", message.for, message.id)
            ELSE Resolve(q, "response", message.for, message.id,
                         convertSymbolsInObject(c, message.payload, DefaultFields))
    ELSE p

\* a timeout callback that leaves the listener registered
onTimeout_keepsListener(p) ==
    Reject([p EXCEPT !.timer = FALSE], "timeout", 0, 0)

\* the setTimeout callback of the call p
onTimeout(p) ==
    Reject([p EXCEPT !.listener = FALSE, !.timer = FALSE], "timeout", 0, 0)

\* the payloads posted and the payloads answered
PostPayloads == { JObj(<<<<"coin", JStr(<<"A", "-", "0">>)>>>>) }
PostResponses == { JObj(<<<<"px", JStr(<<"5">>)>>>>) }

\* the steps the clock advances by
AdvanceSteps == {1, WS_TIMEOUT - 1, WS_TIMEOUT}

\* a client whose socket has opened
ConnectedClient ==
    LET c == connect(NewWebSocketClient).c
        d == onOpen([c EXCEPT !.sockets[1].state = "open"])
    IN [d EXCEPT !.sockets[1].promise = "resolved"]

(***************************************************************************)
(* ExchangeAPI.  Every authenticated action looks up the asset index of    *)
(* its symbol when it has one, takes its nonce from the clock, signs and   *)
(* hands {action, nonce, signature} to makeRequest.                        *)
(***************************************************************************)
\* the actions that look up a symbol and the actions that do not
SymbolActions ==
    { "placeOrder", "cancelOrder", "cancelOrderByCloid", "modifyOrder",
      "batchModifyOrders", "updateLeverage", "updateIsolatedMargin" }
PlainActions ==
    { "usdTransfer", "spotTransfer", "initiateWithdrawal",
      "transferBetweenSpotAndPerp", "scheduleCancel", "vaultTransfer",
      "setReferrer" }

\* the symbols a caller trades
ExchangeSymbols == { <<"A", "-", "P", "E", "R", "P", "-", "0">>, <<"Z", "-", "9">> }

\* the outcome of one action issued at the time nonce: it throws for a
\* symbol without asset index, otherwise its payload carries the nonce
exchangeAction(c, method, symbol, nonce) ==
    IF method \in SymbolActions /\ getAssetIndex(c, symbol) = None
    THEN [method |-> method, threw |-> TRUE, asset |-> None, nonce |-> 0]
    ELSE [method |-> method, threw |-> FALSE,
          asset |-> IF method \in SymbolActions THEN getAssetIndex(c, symbol)
                    ELSE None,
          nonce |-> nonce]

(***************************************************************************)
(* Info facades: GeneralInfoAPI and PerpsInfoAPI over the SymbolConverter.  *)
(* The body of allMids is <<"mids", entries>>, an object whose keys are     *)
(* exchange names and whose values are price texts.                          *)
(***************************************************************************)
JMids(q) == <<"mids", q>>

RECURSIVE LeadingDigits(_)
LeadingDigits(x) ==
    IF x # <<>> /\ IsDigit(x[1]) THEN <<x[1]>> \o LeadingDigits(Tail(x)) ELSE <<>>

RECURSIVE StripLeadingZeros(_)
StripLeadingZeros(x) ==
    IF x # <<>> /\ x[1] = "0" THEN StripLeadingZeros(Tail(x)) ELSE x

NaN == <<"N", "a", "N">>

\* String(parseFloat(value)) for a text of sign, digits and point: parseFloat
\* reads the longest numeric prefix, String prints it without leading and
\* trailing zeros
parseFloatToString(value) ==
    LET u == Unsigned(value)
        ip == LeadingDigits(u)
        rest == SubSeq(u, Len(ip) + 1, Len(u))
        fp == IF rest # <<>> /\ rest[1] = "." THEN LeadingDigits(Tail(rest)) ELSE <<>>
        i == StripLeadingZeros(ip)
        f == StripZeros(fp)
    IN IF ip = <<>> /\ fp = <<>> THEN NaN
       ELSE (IF value[1] = "-" /\ (i # <<>> \/ f # <<>>) THEN <<"-">> ELSE <<>>)
            \o (IF i = <<>> THEN <<"0">> ELSE i)
            \o (IF f = <<>> THEN <<>> ELSE <<".">> \o f)

RECURSIVE AllMidsEntries(_, _, _, _)
AllMidsEntries(c, entries, i, convertedResponse) ==
    IF i > Len(entries) THEN convertedResponse
    ELSE AllMidsEntries(c, entries, i + 1,
             MapSet(convertedResponse, convertSymbol(c, entries[i][1], ""),
                    parseFloatToString(entries[i][2])))

convertAllMids(c, response) ==
    JMids(AllMidsEntries(c, ContentOf(response), 1, EmptyEntries))

\* a query method: whether it has the raw_response parameter, how it
\* translates, the symbol fields it names and whether it takes a coin
Method(name, hasRaw, kind, fields, coin) ==
    [name |-> name, hasRaw |-> hasRaw, kind |-> kind, fields |-> fields,
     coin |-> coin]

MetaFields == {"name", "coin", "symbol"}

GeneralInfoMethods ==
    { Method("getAllMids", TRUE, "allMids", {}, FALSE),
      Method("getUserOpenOrders", TRUE, "object", DefaultFields, FALSE),
      Method("getFrontendOpenOrders", TRUE, "object", DefaultFields, FALSE),
      Method("getUserFills", TRUE, "object", DefaultFields, FALSE),
      Method("getUserFillsByTime", TRUE, "object", DefaultFields, FALSE),
      Method("getTradeInfo", FALSE, "object", DefaultFields, FALSE),
      Method("getUserRateLimit", TRUE, "object", DefaultFields, FALSE),
      Method("getOrderStatus", TRUE, "object", DefaultFields, FALSE),
      Method("getL2Book", TRUE, "object", DefaultFields, TRUE),
      Method("getCandleSnapshot", TRUE, "object", {"s"}, TRUE) }

PerpsInfoMethods ==
    { Method("getMeta", TRUE, "object", MetaFields, FALSE),
      Method("getMetaAndAssetCtxs", TRUE, "object", MetaFields, FALSE),
      Method("getClearinghouseState", TRUE, "object", DefaultFields, FALSE),
      Method("getUserFunding", TRUE, "object", DefaultFields, FALSE),
      Method("getUserNonFundingLedgerUpdates", TRUE, "object", DefaultFields, FALSE),
      Method("getFundingHistory", TRUE, "object", DefaultFields, TRUE) }

InfoMethods == GeneralInfoMethods \cup PerpsInfoMethods

\* the bodies the venue answers a query with
InfoResponses(m) ==
    IF m.kind = "allMids"
    THEN { JMids(<<>>),
           JMids(<<<<<<"A", "-", "0">>, <<"1", ".", "5", "0">>>>,
                   <<<<"@", "1">>, <<".", "5">>>>>>) }
    ELSE { JNull,
           JArr(<<JObj(<<<<"coin", JStr(<<"A", "-", "0">>)>>,
                         <<"side", JStr(<<"B">>)>>>>)>>),
           JObj(<<<<"s", JStr(<<"A", "-", "0">>)>>, <<"px", JStr(<<"5">>)>>>>),
           JObj(<<<<"name", JStr(<<"B">>)>>>>) }

\* the coins a caller names
InfoCoins == { <<"A", "-", "P", "E", "R", "P", "-", "0">>, <<"Z", "-", "9">> }

NoCall == [pc |-> "idle"]

\* what a method returns for a body of the venue
InfoResult(c, m, raw_response, response) ==
    IF m.hasRaw /\ raw_response THEN response
    ELSE IF m.kind = "allMids" THEN convertAllMids(c, response)
    ELSE convertSymbolsInObject(c, response, m.fields)

NoRefresh == [id |-> 0, rejected |-> FALSE, unparsable |-> FALSE]
NoQuery == [sym |-> <<>>, mode |-> "none", out |-> <<>>]
NoMeta == [perp |-> [k |-> "none"], spot |-> [k |-> "none"]]

\* the symbols the reader asks about
QuerySymbols ==
    { <<"A", "-", "0">>, <<"A", "-", "P", "E", "R", "P", "-", "0">>,
      <<"A", "/", "U", "-", "0">>, <<"A", "-", "S", "P", "O", "T", "-", "0">>,
      <<"Z", "-", "9">> }

StartRefresh ==
    /\ nextRefresh <= MaxRefresh
    /\ inflight' = inflight \cup {nextRefresh}
    /\ nextRefresh' = nextRefresh + 1
    /\ UNCHANGED <<conv, lastRefresh, lastQuery, meta, apiVars, trVars, extVars>>

CompleteRefresh ==
    \E id \in inflight, perpResp \in LifePerpResponses,
       spotResp \in LifeSpotResponses :
        /\ conv' = refreshAssetMaps(conv, id, perpResp, spotResp)
        /\ inflight' = inflight \ {id}
        /\ lastRefresh' =
               [id |-> id,
                rejected |-> perpResp.k = "reject" \/ spotResp.k = "reject",
                unparsable |-> Unparsable(perpResp) \/ Unparsable(spotResp)]
        /\ UNCHANGED <<nextRefresh, lastQuery, meta, apiVars, trVars, extVars>>

Query ==
    \E s \in QuerySymbols, mode \in {"", "reverse"} :
        /\ lastQuery' = [sym |-> s, mode |-> mode,
                         out |-> convertSymbol(conv, s, mode)]
        /\ UNCHANGED <<conv, inflight, nextRefresh, lastRefresh, meta,
                       apiVars, trVars, extVars>>

\* one refresh of an empty registry from the metadata the venue holds
BuildRefresh ==
    /\ nextRefresh = 1
    /\ conv' = refreshAssetMaps(conv, 1, meta.perp, meta.spot)
    /\ nextRefresh' = 2
    /\ lastRefresh' =
           [id |-> 1,
            rejected |-> meta.perp.k = "reject" \/ meta.spot.k = "reject",
            unparsable |-> Unparsable(meta.perp) \/ Unparsable(meta.spot)]
    /\ UNCHANGED <<inflight, lastQuery, meta, apiVars, trVars, extVars>>

ApiIdle ==
    /\ api = NewApiMaps
    /\ apiInit = "idle"
    /\ apiTimer = FALSE
    /\ apiInflight = {}
    /\ apiStarted = 0
    /\ apiSucceeded = 0
    /\ caller = "idle"
    /\ apiClosed = FALSE

ConvIdle ==
    /\ conv = NewConverter
    /\ inflight = {}
    /\ nextRefresh = 1
    /\ lastRefresh = NoRefresh
    /\ lastQuery = NoQuery

TrIdle ==
    /\ tIn = JNull
    /\ tFields = {}
    /\ tOut = None
    /\ tMode = ""
    /\ wOut = None

InfoIdle ==
    /\ iCall = NoCall
    /\ iResp = JNull
    /\ iOut = None

WsIdle ==
    /\ wsc = NewWebSocketClient
    /\ userClosed = FALSE

ClockIdle ==
    /\ now = 0
    /\ ticks = 0

PostIdle ==
    /\ posts = <<>>
    /\ wire = <<>>

ExchangeIdle == actions = <<>>

\* 1200 tokens per minute
capacity == 1200

\* tokens per second
refillRate == capacity \div 60

\* tokens are counted in units of 1/Scale token, the amount one millisecond
\* refills, so that elapsedSeconds * refillRate stays an integer
Scale == 1000 \div refillRate

NewRateLimiter(t) == [tokens |-> capacity * Scale, lastRefill |-> t]

RateIdle ==
    /\ limiter = NewRateLimiter(0)
    /\ waiters = <<>>

\* the key handed to the HyperliquidAPI constructor: null, or a string with
\* or without the 0x prefix whose digits make a valid key, an invalid one,
\* or no digits at all
PrivateKeys ==
    {None} \cup { Some([has0x |-> p, digits |-> d]) :
                      p \in BOOLEAN, d \in {"", "valid", "invalid"} }

\* if (privateKey): null and the empty string are falsy
KeyGiven(privateKey) ==
    /\ privateKey # None
    /\ (privateKey[1].has0x \/ privateKey[1].digits # "")

\* privateKey.startsWith('0x') ? privateKey : `0x${privateKey}`
formattedPrivateKey(key) == [key EXCEPT !.has0x = TRUE]

\* new Wallet(formattedPrivateKey) does not throw
WalletAccepts(key) == key.has0x /\ key.digits = "valid"

\* initializeWithPrivateKey leaving the proxies but setting the flag
initializeWithPrivateKey_alwaysValid(c, key) ==
    IF WalletAccepts(formattedPrivateKey(key))
    THEN [exchange |-> "ExchangeAPI", custom |-> "CustomOperations",
          isValidPrivateKey |-> TRUE]
    ELSE [c EXCEPT !.isValidPrivateKey = TRUE]

initializeWithPrivateKey(c, key) ==
    IF WalletAccepts(formattedPrivateKey(key))
    THEN [exchange |-> "ExchangeAPI", custom |-> "CustomOperations",
          isValidPrivateKey |-> TRUE]
    ELSE [c EXCEPT !.isValidPrivateKey = FALSE]

\* the facades a HyperliquidAPI holds after its constructor
NewClient(privateKey) ==
    LET c == [exchange |-> "proxy", custom |-> "proxy",
              isValidPrivateKey |-> FALSE]
    IN  IF KeyGiven(privateKey)
        THEN initializeWithPrivateKey(c, privateKey[1])
        ELSE c

isAuthenticated(c) == c.isValidPrivateKey

HttpIdle ==
    /\ client = NewClient(None)
    /\ calls = <<>>

\* the channels of the venue the model subscribes to, the coins of a candle
\* subscription (a subscription without coin has the coin ""), the callbacks
SubKinds == {"allMids", "trades", "candle"}
SubCoins(kind) == IF kind = "candle" THEN {"A", "B"} ELSE {""}
Callbacks == {"f", "g"}

\* this.subscriptions, where no entry and an empty Set are the same, and the
\* 'message' listeners added to the socket client after the constructor's
NewSubscriptions ==
    [subscriptions |-> [k \in SubKinds |-> {}], listeners |-> <<>>]

SubIdle ==
    /\ subs = NewSubscriptions
    /\ unsub = {}
    /\ invoked = {}

\* LeaderboardAPI.cache after the constructor and after clearCache
NewCache == [data |-> None, timestamp |-> 0]

\* the last event that wrote the cache
NoBoardEvent == [event |-> "none", at |-> 0, data |-> ""]

\* the getLeaderboard call that began last
NoBoardCall ==
    [at |-> 0, log |-> NoBoardEvent, dispatched |-> FALSE, outcome |-> None]

BoardIdle ==
    /\ board = NewCache
    /\ boardCalls = [pending |-> 0, last |-> NoBoardCall, done |-> None]
    /\ boardLog = NoBoardEvent

\* no leaderboard, no filter, no result
FilterIdle ==
    /\ fIn = None
    /\ fOut = None

ExtIdle ==
    /\ InfoIdle
    /\ WsIdle
    /\ ClockIdle
    /\ PostIdle
    /\ ExchangeIdle
    /\ RateIdle
    /\ HttpIdle
    /\ SubIdle
    /\ BoardIdle
    /\ FilterIdle

Init ==
    /\ ConvIdle
    /\ meta = NoMeta
    /\ ApiIdle
    /\ TrIdle
    /\ ExtIdle

Next == StartRefresh \/ CompleteRefresh \/ Query

Spec == Init /\ [][Next]_vars

InitBuild ==
    /\ ConvIdle
    /\ meta \in [perp : PerpResponses, spot : SpotResponses]
    /\ ApiIdle
    /\ TrIdle
    /\ ExtIdle

NextBuild == BuildRefresh \/ Query

SpecBuild == InitBuild /\ [][NextBuild]_vars

(***************************************************************************)
(* HyperliquidAPI life cycle.  The constructor calls initialize(), which   *)
(* starts the first refresh; when that refresh returns, initialize starts  *)
(* the periodic refresh and the initialization promise resolves.           *)
(***************************************************************************)
ApiCompleteRefresh ==
    \E id \in apiInflight, perpResp \in LifePerpResponses,
       spotResp \in LifeSpotResponses :
        LET r == refreshAssetToIndexMap(api, perpResp, spotResp)
        IN /\ api' = r.maps
           /\ apiSucceeded' = IF r.ok THEN apiSucceeded + 1 ELSE apiSucceeded
           /\ apiInflight' = apiInflight \ {id}
           /\ apiInit' = IF id = 1 THEN "starting" ELSE apiInit
           /\ UNCHANGED <<apiTimer, apiStarted, caller, apiClosed,
                          convVars, trVars, extVars>>

startPeriodicRefresh ==
    /\ apiInit = "starting"
    /\ apiTimer' = TRUE
    /\ apiInit' = "done"
    /\ UNCHANGED <<api, apiInflight, apiStarted, apiSucceeded, caller, apiClosed,
                   convVars, trVars, extVars>>

ApiTimerFires ==
    /\ apiTimer
    /\ apiStarted < MaxRefresh
    /\ apiStarted' = apiStarted + 1
    /\ apiInflight' = apiInflight \cup {apiStarted + 1}
    /\ UNCHANGED <<api, apiInit, apiTimer, apiSucceeded, caller, apiClosed,
                   convVars, trVars, extVars>>

\* apiClosed records that disconnect() has returned
disconnect ==
    /\ wsc' = closeClient(wsc)
    /\ userClosed' = TRUE
    /\ apiTimer' = FALSE
    /\ apiClosed' = TRUE
    /\ UNCHANGED <<api, apiInit, apiInflight, apiStarted, apiSucceeded, caller,
                   convVars, trVars, disconnectOthers>>

\* a translated facade call: it awaits ensureInitialized(), then proceeds
CallTranslated ==
    /\ caller = "idle"
    /\ caller' = "waiting"
    /\ UNCHANGED <<api, apiInit, apiTimer, apiInflight, apiStarted, apiSucceeded,
                   apiClosed, convVars, trVars, extVars>>

ensureInitialized ==
    /\ caller = "waiting"
    /\ apiInit = "done"
    /\ caller' = "proceeding"
    /\ UNCHANGED <<api, apiInit, apiTimer, apiInflight, apiStarted, apiSucceeded,
                   apiClosed, convVars, trVars, extVars>>

CallReturns ==
    /\ caller = "proceeding"
    /\ caller' = "idle"
    /\ UNCHANGED <<api, apiInit, apiTimer, apiInflight, apiStarted, apiSucceeded,
                   apiClosed, convVars, trVars, extVars>>

InitApi ==
    /\ ConvIdle
    /\ meta = NoMeta
    /\ api = NewApiMaps
    /\ apiInit = "refreshing"
    /\ apiTimer = FALSE
    /\ apiInflight = {1}
    /\ apiStarted = 1
    /\ apiSucceeded = 0
    /\ caller = "idle"
    /\ apiClosed = FALSE
    /\ TrIdle
    /\ ExtIdle

NextApi ==
    \/ ApiCompleteRefresh
    \/ startPeriodicRefresh
    \/ ApiTimerFires
    \/ disconnect
    \/ CallTranslated
    \/ ensureInitialized
    \/ CallReturns

SpecApi == InitApi /\ [][NextApi]_vars

(***************************************************************************)
(* Translation of one payload.                                             *)
(***************************************************************************)
Translate ==
    /\ tOut = None
    /\ tOut' = Some(convertSymbolsInObject(conv, tIn, tFields))
    /\ UNCHANGED <<tIn, tFields, tMode, wOut, convVars, apiVars, extVars>>

InitTranslate ==
    /\ conv \in TranslateRegistries
    /\ inflight = {}
    /\ nextRefresh = 1
    /\ lastRefresh = NoRefresh
    /\ lastQuery = NoQuery
    /\ meta = NoMeta
    /\ ApiIdle
    /\ tIn \in Payloads
    /\ tFields \in FieldSets
    /\ tOut = None
    /\ tMode = ""
    /\ wOut = None
    /\ ExtIdle

NextTranslate == Translate

SpecTranslate == InitTranslate /\ [][NextTranslate]_vars

(***************************************************************************)
(* Translation of open orders against the registry one refresh built from  *)
(* the metadata of the venue: the coin is an exchange key, an internal     *)
(* name or a symbol no registry holds.                                     *)
(***************************************************************************)
OrderCoins ==
    { <<"A", "-", "0">>, <<"A", "-", "P", "E", "R", "P", "-", "0">>,
      <<"A", "/", "U", "-", "0">>, <<"A", "-", "S", "P", "O", "T", "-", "0">>,
      <<"@", "1", "-", "1">>, <<"Z", "-", "9">> }

OpenOrders ==
    { JObj(<<<<"coin", JStr(coin)>>, <<"side", JStr(side)>>, <<"px", JStr(px)>>>>) :
          coin \in OrderCoins,
          side \in {<<"A">>, <<"B">>, <<"s", "e", "l", "l">>},
          px \in {<<"5">>, <<"-", "1", ".", "5", "0">>} }

OrderPayloads == OpenOrders \cup { JArr(<<o>>) : o \in OpenOrders }

InitRetranslate ==
    /\ meta \in [perp : PerpResponses, spot : SpotResponses]
    /\ conv = refreshAssetMaps(NewConverter, 1, meta.perp, meta.spot)
    /\ inflight = {}
    /\ nextRefresh = 2
    /\ lastRefresh =
           [id |-> 1,
            rejected |-> meta.perp.k = "reject" \/ meta.spot.k = "reject",
            unparsable |-> Unparsable(meta.perp) \/ Unparsable(meta.spot)]
    /\ lastQuery = NoQuery
    /\ ApiIdle
    /\ tIn \in OrderPayloads
    /\ tFields \in FieldSets
    /\ tOut = None
    /\ tMode = ""
    /\ wOut = None
    /\ ExtIdle

NextRetranslate == Translate

SpecRetranslate == InitRetranslate /\ [][NextRetranslate]_vars

(***************************************************************************)
(* The same payload translated by SymbolConverter and by                   *)
(* WebSocketSubscriptions.                                                   *)
(***************************************************************************)
WsTranslate ==
    /\ wOut = None
    /\ wOut' = Some(wsConvertSymbolsInObject(conv, tIn, tFields, tMode))
    /\ UNCHANGED <<tIn, tFields, tOut, tMode, convVars, apiVars, extVars>>

InitWsTranslate ==
    /\ conv \in TranslateRegistries
    /\ inflight = {}
    /\ nextRefresh = 1
    /\ lastRefresh = NoRefresh
    /\ lastQuery = NoQuery
    /\ meta = NoMeta
    /\ ApiIdle
    /\ tIn \in WsPayloads
    /\ tFields \in FieldSets
    /\ tMode \in SymbolModes
    /\ tOut = None
    /\ wOut = None
    /\ ExtIdle

NextWsTranslate == Translate \/ WsTranslate

SpecWsTranslate == InitWsTranslate /\ [][NextWsTranslate]_vars

(***************************************************************************)
(* A call of a query method.  The method builds its request (reversing the  *)
(* coin it is given), awaits makeRequest and returns; it never awaits the   *)
(* readiness of the registry.                                                *)
(***************************************************************************)
InfoCall ==
    /\ iCall.pc = "idle"
    /\ \E m \in InfoMethods, raw_response \in BOOLEAN, coin \in InfoCoins :
           iCall' = [pc |-> "requested", method |-> m, raw |-> raw_response,
                     coin |-> IF m.coin
                              THEN Some(convertSymbol(conv, coin, "reverse"))
                              ELSE None,
                     waited |-> FALSE]
    /\ UNCHANGED <<iResp, iOut, infoOthers>>

InfoReturns ==
    /\ iCall.pc = "requested"
    /\ \E response \in InfoResponses(iCall.method) :
           /\ iResp' = response
           /\ iOut' = Some(InfoResult(conv, iCall.method, iCall.raw, response))
    /\ iCall' = [iCall EXCEPT !.pc = "returned"]
    /\ UNCHANGED <<infoOthers>>

\* makeRequest throws: the method rejects
InfoFails ==
    /\ iCall.pc = "requested"
    /\ iCall' = [iCall EXCEPT !.pc = "failed"]
    /\ UNCHANGED <<iResp, iOut, infoOthers>>

InfoDone ==
    /\ iCall.pc \in {"returned", "failed"}
    /\ iCall' = NoCall
    /\ iResp' = JNull
    /\ iOut' = None
    /\ UNCHANGED <<infoOthers>>

InitInfo ==
    /\ conv \in TranslateRegistries
    /\ inflight = {}
    /\ nextRefresh = 1
    /\ lastRefresh = NoRefresh
    /\ lastQuery = NoQuery
    /\ meta = NoMeta
    /\ ApiIdle
    /\ TrIdle
    /\ ExtIdle

NextInfo == InfoCall \/ InfoReturns \/ InfoFails \/ InfoDone

SpecInfo == InitInfo /\ [][NextInfo]_vars

(***************************************************************************)
(* WebSocketClient life cycle: the calls of the user, the events of the    *)
(* sockets and the continuations of reconnect() and sendMessage().         *)
(* userClosed records that close() was the last call of the user.          *)
(***************************************************************************)
WithinBounds(c) == Len(c.sockets) <= MaxSockets /\ Len(c.sends) <= MaxSends

UserConnect ==
    LET r == connect(wsc)
    IN /\ WithinBounds(r.c)
       /\ wsc' = [r.c EXCEPT !.returned =
                               [p |-> r.p, promise |-> r.c.sockets[r.p].promise]]
       /\ userClosed' = FALSE
       /\ UNCHANGED wsOthers

UserSendMessage ==
    LET c == sendMessage(wsc, "user")
    IN /\ WithinBounds(c)
       /\ wsc' = c
       /\ userClosed' = FALSE
       /\ UNCHANGED wsOthers

close ==
    /\ wsc' = closeClient(wsc)
    /\ userClosed' = TRUE
    /\ UNCHANGED wsOthers

\* 'open' of a socket: onOpen(), then the promise resolves
SocketOpens ==
    \E s \in 1..Len(wsc.sockets) :
        /\ wsc.sockets[s].state = "connecting"
        /\ LET c == onOpen([wsc EXCEPT !.sockets[s].state = "open"])
               d == [c EXCEPT !.sockets[s].promise =
                                  IF @ = "pending" THEN "resolved" ELSE @]
           IN WithinBounds(d) /\ wsc' = d
        /\ UNCHANGED <<userClosed, wsOthers>>

\* 'error' of a socket that has not opened: onError(), then the promise
\* rejects; 'close' follows
SocketErrors ==
    \E s \in 1..Len(wsc.sockets) :
        /\ wsc.sockets[s].state \in {"connecting", "aborting"}
        /\ wsc' = [wsc EXCEPT !.sockets[s] =
                       [state |-> "closing",
                        promise |-> IF @.promise = "pending" THEN "rejected"
                                    ELSE @.promise]]
        /\ UNCHANGED <<userClosed, wsOthers>>

\* 'close' of a socket: onClose()
SocketCloses ==
    \E s \in 1..Len(wsc.sockets) :
        /\ wsc.sockets[s].state \in {"open", "closing"}
        /\ LET c == onClose([wsc EXCEPT !.sockets[s].state = "closed"])
           IN WithinBounds(c) /\ wsc' = c
        /\ UNCHANGED <<userClosed, wsOthers>>

\* reconnect() resumes after await this.connect(): it returns when the
\* promise resolved and sleeps reconnectDelay when it rejected
ReconnectResumes ==
    \E i \in 1..Len(wsc.loops) :
        /\ wsc.loops[i].pc = "connect"
        /\ wsc.sockets[wsc.loops[i].p].promise # "pending"
        /\ wsc' = IF wsc.sockets[wsc.loops[i].p].promise = "resolved"
                  THEN [wsc EXCEPT !.loops = RemoveAt(@, i)]
                  ELSE [wsc EXCEPT !.loops[i].pc = "sleep"]
        /\ UNCHANGED <<userClosed, wsOthers>>

\* reconnectDelay has passed: the next turn of the loop
ReconnectWakes ==
    \E i \in 1..Len(wsc.loops) :
        /\ wsc.loops[i].pc = "sleep"
        /\ LET c == reconnectLoop([wsc EXCEPT !.loops = RemoveAt(@, i)],
                                  wsc.loops[i].made)
           IN WithinBounds(c) /\ wsc' = c
        /\ UNCHANGED <<userClosed, wsOthers>>

\* sendMessage() resumes after await this.ensureConnected(): it throws when
\* the promise rejected, sends on an open socket and queues otherwise
SendResumes ==
    \E i \in 1..Len(wsc.sends) :
        /\ wsc.sockets[wsc.sends[i].p].promise # "pending"
        /\ LET c == [wsc EXCEPT !.sends = RemoveAt(@, i)]
           IN wsc' = IF wsc.sockets[wsc.sends[i].p].promise = "resolved"
                        /\ ~isConnected(c)
                     THEN [c EXCEPT !.messageQueue =
                                        Append(@, wsc.sends[i].message)]
                     ELSE c
        /\ UNCHANGED <<userClosed, wsOthers>>

\* the ping timer fires
PingFires ==
    /\ wsc.pingInterval
    /\ LET c == sendMessage(wsc, "ping")
       IN WithinBounds(c) /\ wsc' = c
    /\ UNCHANGED <<userClosed, wsOthers>>

InitWs ==
    /\ ConvIdle
    /\ meta = NoMeta
    /\ ApiIdle
    /\ TrIdle
    /\ ExtIdle

NextWs ==
    \/ UserConnect
    \/ UserSendMessage
    \/ close
    \/ SocketOpens
    \/ SocketErrors
    \/ SocketCloses
    \/ ReconnectResumes
    \/ ReconnectWakes
    \/ SendResumes
    \/ PingFires

SpecWs == InitWs /\ [][NextWs]_vars

(***************************************************************************)
(* The same life cycle in the order of the event loop: the continuation    *)
(* of an await on a settled promise runs before the next event, timer or   *)
(* call of the user.                                                       *)
(***************************************************************************)
MicrotasksPending(c) ==
    \/ \E i \in 1..Len(c.loops) :
           c.loops[i].pc = "connect" /\ c.sockets[c.loops[i].p].promise # "pending"
    \/ \E i \in 1..Len(c.sends) : c.sockets[c.sends[i].p].promise # "pending"

WsTurn ==
    /\ ~MicrotasksPending(wsc)
    /\ \/ UserConnect
       \/ UserSendMessage
       \/ close
       \/ SocketOpens
       \/ SocketErrors
       \/ SocketCloses
       \/ ReconnectWakes
       \/ PingFires

NextWsTurns == ReconnectResumes \/ SendResumes \/ WsTurn

SpecWsTurns == InitWs /\ [][NextWsTurns]_vars

(***************************************************************************)
(* The life cycle without close(), with the progress the runtime gives:    *)
(* continuations run, the reconnectDelay timer fires, a connecting socket  *)
(* opens or fails, and 'close' follows 'error'. The calls of the user and  *)
(* the loss of an open socket may or may not happen. The 'close' of a      *)
(* failed socket comes before reconnectDelay has passed. Events and the    *)
(* timer wait for the continuations only, so the calls of the user cannot  *)
(* starve them (strong fairness).                                          *)
(***************************************************************************)
ClosePending(c) == \E s \in 1..Len(c.sockets) : c.sockets[s].state = "closing"

ConnectingSettles == ~MicrotasksPending(wsc) /\ (SocketOpens \/ SocketErrors)

ClosingCloses ==
    /\ ~MicrotasksPending(wsc)
    /\ SocketCloses
    /\ \E s \in 1..Len(wsc.sockets) :
           wsc.sockets[s].state = "closing" /\ wsc'.sockets[s].state = "closed"

LoopWakes == ~MicrotasksPending(wsc) /\ ~ClosePending(wsc) /\ ReconnectWakes

WsLiveTurn ==
    /\ ~MicrotasksPending(wsc)
    /\ \/ UserConnect \/ UserSendMessage \/ SocketOpens \/ SocketErrors
       \/ SocketCloses \/ (~ClosePending(wsc) /\ ReconnectWakes) \/ PingFires

NextWsLive == ReconnectResumes \/ SendResumes \/ WsLiveTurn

SpecWsLive ==
    /\ InitWs
    /\ [][NextWsLive]_vars
    /\ WF_vars(ReconnectResumes)
    /\ WF_vars(SendResumes)
    /\ SF_vars(ConnectingSettles)
    /\ SF_vars(ClosingCloses)
    /\ SF_vars(LoopWakes)

(***************************************************************************)
(* Post requests over a connected client.  wire holds the requests the     *)
(* venue has received and not answered; a frame answers one of them and    *)
(* is emitted to every listener of the client.  A timer fires when its     *)
(* delay has passed, and the clock does not pass a timer that is due.      *)
(***************************************************************************)
postRequest ==
    /\ Len(posts) < MaxPosts
    /\ isConnected(wsc)
    /\ \E payload \in PostPayloads :
           LET id == now
               convertedPayload == convertSymbolsInObject(conv, payload, DefaultFields)
           IN /\ wsc' = sendMessage(wsc, "post")
              /\ wire' = Append(wire, [id |-> id, for |-> Len(posts) + 1,
                                       payload |-> convertedPayload])
              /\ posts' = Append(posts, NewPost(id))
    /\ UNCHANGED <<userClosed, clockVars, postOthers>>

FrameArrives ==
    /\ isConnected(wsc)
    /\ \E w \in 1..Len(wire), type \in {"ok", "error"}, payload \in PostResponses :
           LET message == [id |-> wire[w].id, for |-> wire[w].for,
                           type |-> type, payload |-> payload]
           IN /\ posts' = [i \in 1..Len(posts) |->
                              responseHandler(conv, posts[i], message)]
              /\ wire' = RemoveAt(wire, w)
    /\ UNCHANGED <<wsVars, clockVars, postOthers>>

PostTimeout ==
    \E i \in 1..Len(posts) :
        /\ posts[i].timer
        /\ now >= posts[i].id + WS_TIMEOUT
        /\ posts' = [posts EXCEPT ![i] = onTimeout(@)]
        /\ UNCHANGED <<wire, wsVars, clockVars, postOthers>>

Advance ==
    \E d \in AdvanceSteps :
        /\ ticks < MaxTicks
        /\ \A i \in 1..Len(posts) :
               posts[i].timer => now + d <= posts[i].id + WS_TIMEOUT
        /\ \A i \in 1..Len(waiters) : waiters[i].pc # "resumed"
        /\ now' = now + d
        /\ ticks' = ticks + 1
        /\ UNCHANGED <<wsVars, postVars, postOthers>>

InitPost ==
    /\ conv \in TranslateRegistries
    /\ inflight = {}
    /\ nextRefresh = 1
    /\ lastRefresh = NoRefresh
    /\ lastQuery = NoQuery
    /\ meta = NoMeta
    /\ ApiIdle
    /\ TrIdle
    /\ InfoIdle
    /\ wsc = ConnectedClient
    /\ userClosed = FALSE
    /\ ClockIdle
    /\ PostIdle
    /\ ExchangeIdle
    /\ RateIdle
    /\ HttpIdle
    /\ SubIdle
    /\ BoardIdle
    /\ FilterIdle

NextPost == postRequest \/ FrameArrives \/ PostTimeout \/ Advance \/ close

SpecPost == InitPost /\ [][NextPost]_vars

(***************************************************************************)
(* Post requests begun while no socket is open: sendMessage awaits the     *)
(* connection, and its failure rejects the call.                           *)
(***************************************************************************)
postRequestConnecting ==
    /\ Len(posts) < MaxPosts
    /\ ~isConnected(wsc)
    /\ LET r == connect(wsc)
       IN /\ WithinBounds(r.c)
          /\ wsc' = r.c
          /\ posts' = Append(posts, [NewPost(now) EXCEPT !.sending = r.p])
    /\ UNCHANGED <<wire, userClosed, clockVars, postOthers>>

\* sendMessage of a call resumes after await this.ensureConnected(): the
\* .catch of postRequest rejects the call when the connection failed
PostSendResumes ==
    \E i \in 1..Len(posts), payload \in PostPayloads :
        /\ posts[i].sending # 0
        /\ wsc.sockets[posts[i].sending].promise # "pending"
        /\ IF wsc.sockets[posts[i].sending].promise = "rejected"
           THEN /\ posts' = [posts EXCEPT
                                 ![i] = Reject([@ EXCEPT !.sending = 0], "send", 0, 0)]
                /\ UNCHANGED <<wire, wsc>>
           ELSE /\ posts' = [posts EXCEPT ![i].sending = 0]
                /\ IF isConnected(wsc)
                   THEN /\ wire' = Append(wire,
                                [id |-> posts[i].id, for |-> i,
                                 payload |-> convertSymbolsInObject(conv, payload,
                                                                    DefaultFields)])
                        /\ UNCHANGED wsc
                   ELSE /\ wsc' = [wsc EXCEPT !.messageQueue = Append(@, "post")]
                        /\ UNCHANGED wire
        /\ UNCHANGED <<userClosed, clockVars, postOthers>>

InitPostSend ==
    /\ conv \in TranslateRegistries
    /\ inflight = {}
    /\ nextRefresh = 1
    /\ lastRefresh = NoRefresh
    /\ lastQuery = NoQuery
    /\ meta = NoMeta
    /\ ApiIdle
    /\ TrIdle
    /\ InfoIdle
    /\ wsc = NewWebSocketClient
    /\ userClosed = FALSE
    /\ ClockIdle
    /\ PostIdle
    /\ ExchangeIdle
    /\ RateIdle
    /\ HttpIdle
    /\ SubIdle
    /\ BoardIdle
    /\ FilterIdle

NextPostSend ==
    \/ postRequest
    \/ postRequestConnecting
    \/ PostSendResumes
    \/ SocketOpens
    \/ SocketErrors
    \/ FrameArrives
    \/ PostTimeout
    \/ Advance

SpecPostSend == InitPostSend /\ [][NextPostSend]_vars

(***************************************************************************)
(* Authenticated actions of one wallet, in the order they are issued.      *)
(***************************************************************************)
ExchangeAction ==
    /\ Len(actions) < MaxActions
    /\ \E method \in SymbolActions \cup PlainActions, symbol \in ExchangeSymbols :
           actions' = Append(actions, exchangeAction(conv, method, symbol, now))
    /\ UNCHANGED <<clockVars, exchangeOthers>>

InitExchange ==
    /\ conv \in TranslateRegistries
    /\ inflight = {}
    /\ nextRefresh = 1
    /\ lastRefresh = NoRefresh
    /\ lastQuery = NoQuery
    /\ meta = NoMeta
    /\ ApiIdle
    /\ TrIdle
    /\ ExtIdle

NextExchange == ExchangeAction \/ Advance

SpecExchange == InitExchange /\ [][NextExchange]_vars

(***************************************************************************)
(* One action of ExchangeAPI in two steps: the lookups of its symbols,     *)
(* which all run before the first suspension, and then signing and         *)
(* dispatch; the registry may be refreshed in between.  An action is       *)
(* [method, symbols, pc, carried, signed, dispatched]; the next action is  *)
(* begun when the one before it has ended.                                 *)
(***************************************************************************)
\* the methods with one symbol and the methods with a list of them
OneSymbolMethods == {"placeOrder", "modifyOrder", "updateLeverage"}
ListMethods == {"cancelOrder", "batchModifyOrders"}

OrderSymbols(method) ==
    { <<x>> : x \in ExchangeSymbols }
        \cup IF method \in ListMethods
             THEN { <<x, y>> : x \in ExchangeSymbols, y \in ExchangeSymbols }
             ELSE {}

\* Promise.all(....map(... this.getAssetIndex(coin))): the lookups
exchangeLookup(c, symbols) ==
    [i \in 1..Len(symbols) |-> getAssetIndex(c, symbols[i])]

\* the lookups without the test for undefined
exchangeBegin_unchecked(c, method, symbols) ==
    LET index == exchangeLookup(c, symbols)
    IN [method |-> method, symbols |-> symbols, pc |-> "signing",
        carried |-> [i \in 1..Len(symbols) |->
                        IF index[i] = None THEN -1 ELSE index[i][1]],
        signed |-> FALSE, dispatched |-> FALSE]

\* the action up to await signL1Action, or its throw for an unknown asset
exchangeBegin(c, method, symbols) ==
    LET index == exchangeLookup(c, symbols)
    IN IF \E i \in 1..Len(symbols) : index[i] = None
       THEN [method |-> method, symbols |-> symbols, pc |-> "threw",
             carried |-> <<>>, signed |-> FALSE, dispatched |-> FALSE]
       ELSE [method |-> method, symbols |-> symbols, pc |-> "signing",
             carried |-> [i \in 1..Len(symbols) |-> index[i][1]],
             signed |-> FALSE, dispatched |-> FALSE]

\* the action after signL1Action: httpApi.makeRequest(payload, 1)
exchangeDispatch(a) ==
    [a EXCEPT !.pc = "dispatched", !.signed = TRUE, !.dispatched = TRUE]

\* held records what the registry held for each symbol when the action began
OrderBegins ==
    \E method \in OneSymbolMethods \cup ListMethods :
        \E symbols \in OrderSymbols(method) :
            /\ \A k \in 1..Len(actions) : actions[k].op.pc # "signing"
            /\ actions' = <<[op |-> exchangeBegin(conv, method, symbols),
                             held |-> [i \in 1..Len(symbols) |->
                                          MapGet(conv.assetToIndexMap.entries,
                                                 symbols[i])]]>>
            /\ UNCHANGED <<clockVars, exchangeOthers>>

OrderDispatches ==
    /\ actions # <<>>
    /\ actions[1].op.pc = "signing"
    /\ actions' = <<[actions[1] EXCEPT !.op = exchangeDispatch(@)]>>
    /\ UNCHANGED <<clockVars, exchangeOthers>>

\* a whole refresh between two steps of an action
OrderRefresh ==
    \E perpResp \in LifePerpResponses,
       spotResp \in { r \in LifeSpotResponses : r.k = "ok" /\ Len(r.universe) <= 1 } :
        /\ nextRefresh <= MaxRefresh
        /\ conv' = refreshAssetMaps(conv, nextRefresh, perpResp, spotResp)
        /\ nextRefresh' = nextRefresh + 1
        /\ UNCHANGED <<inflight, lastRefresh, lastQuery, meta, apiVars, trVars,
                       extVars>>

NextOrder == OrderBegins \/ OrderDispatches \/ OrderRefresh

SpecOrder == InitExchange /\ [][NextOrder]_vars

(***************************************************************************)
(* RateLimiter: a token bucket shared by concurrent callers.               *)
(***************************************************************************)
Minimum(a, b) == IF a <= b THEN a ELSE b

\* refillTokens() crediting twice the elapsed time
refillTokens_doubleRate(l, t) ==
    [tokens |-> Minimum(capacity * Scale, l.tokens + 2 * (t - l.lastRefill)),
     lastRefill |-> t]

\* refillTokens() without Math.min
refillTokens_uncapped(l, t) ==
    [tokens |-> l.tokens + (t - l.lastRefill), lastRefill |-> t]

\* refillTokens(): Math.min(capacity, tokens + elapsedSeconds * refillRate)
refillTokens(l, t) ==
    [tokens |-> Minimum(capacity * Scale, l.tokens + (t - l.lastRefill)),
     lastRefill |-> t]

\* weight > this.capacity
exceedsCapacity_never(weight) == FALSE

exceedsCapacity(weight) == weight > capacity

\* this.tokens < weight
short(l, weight) == l.tokens < weight * Scale

\* (weight - this.tokens) / this.refillRate * 1000, in milliseconds
waitTime(l, weight) == weight * Scale - l.tokens

\* this.tokens -= weight
grant_keepsTokens(l, weight) == l

grant(l, weight) == [l EXCEPT !.tokens = @ - weight * Scale]

Weights == {1, capacity, capacity + 1}

\* a caller of waitForToken: "resumed" after an await of refillTokens(),
\* "sleeping" in the setTimeout, "granted" once returned, "failed" once thrown
\* slept and grantedAt record the call's history: whether it has been put to
\* sleep, and the clock at its grant
NewWaiter(weight, pc) ==
    [w |-> weight, pc |-> pc, wakeAt |-> 0, slept |-> FALSE, grantedAt |-> 0]

\* waitForToken(weight) up to its first await
waitForTokenOf(weight) ==
    IF exceedsCapacity(weight)
    THEN /\ waiters' = Append(waiters, NewWaiter(weight, "failed"))
         /\ limiter' = limiter
    ELSE /\ limiter' = refillTokens(limiter, now)
         /\ waiters' = Append(waiters, NewWaiter(weight, "resumed"))

waitForToken ==
    /\ Len(waiters) < MaxWaiters
    /\ \E weight \in Weights : waitForTokenOf(weight)
    /\ UNCHANGED <<clockVars, rateOthers>>

\* the loop test after an await of refillTokens(): sleep, or take the tokens
WaiterResumesAt(i) ==
    /\ waiters[i].pc = "resumed"
    /\ IF short(limiter, waiters[i].w)
       THEN /\ waiters' = [waiters EXCEPT ![i] =
                               [@ EXCEPT !.pc = "sleeping",
                                         !.wakeAt = now + waitTime(limiter, waiters[i].w),
                                         !.slept = TRUE]]
            /\ limiter' = limiter
       ELSE /\ limiter' = grant(limiter, waiters[i].w)
            /\ waiters' = [waiters EXCEPT ![i] =
                               [@ EXCEPT !.pc = "granted", !.grantedAt = now]]
    /\ UNCHANGED <<clockVars, rateOthers>>

WaiterResumes == \E i \in 1..Len(waiters) : WaiterResumesAt(i)

\* the setTimeout of a sleeping caller fires: refillTokens(), then its await
WaiterWakesAt(i) ==
    /\ waiters[i].pc = "sleeping"
    /\ now >= waiters[i].wakeAt
    /\ limiter' = refillTokens(limiter, now)
    /\ waiters' = [waiters EXCEPT ![i] = [@ EXCEPT !.pc = "resumed"]]
    /\ UNCHANGED <<clockVars, rateOthers>>

WaiterWakes == \E i \in 1..Len(waiters) : WaiterWakesAt(i)

InitRate ==
    /\ ConvIdle
    /\ meta = NoMeta
    /\ ApiIdle
    /\ TrIdle
    /\ ExtIdle

NextRate == waitForToken \/ WaiterResumes \/ WaiterWakes \/ Advance

SpecRate == InitRate /\ [][NextRate]_vars

(***************************************************************************)
(* The RateLimiter with callers that keep calling, for as long as it       *)
(* takes.  The limiter reads the clock only through differences, so here   *)
(* time is measured from the present: now stays 0 and the passing of d     *)
(* milliseconds moves lastRefill and every wakeAt d into the past.  An     *)
(* elapsed time beyond a full refill and a wakeAt already due are kept at  *)
(* those values, which refillTokens() and the timers cannot tell apart.    *)
(***************************************************************************)
LiveWeights == {capacity \div 2, capacity}

LiveSteps == {(capacity \div 2) * Scale}

Maximum(a, b) == IF a >= b THEN a ELSE b

LiveCalls ==
    /\ Len(waiters) < MaxWaiters
    /\ \E weight \in LiveWeights : waitForTokenOf(weight)
    /\ UNCHANGED <<clockVars, rateOthers>>

\* a caller whose call has returned calls waitForToken again
LiveCallsAgain ==
    \E i \in 1..Len(waiters) :
        /\ waiters[i].pc = "granted"
        /\ limiter' = refillTokens(limiter, now)
        /\ waiters' = [waiters EXCEPT ![i] = NewWaiter(waiters[i].w, "resumed")]
        /\ UNCHANGED <<clockVars, rateOthers>>

LiveAdvance ==
    \E d \in LiveSteps :
        /\ \A i \in 1..Len(waiters) : waiters[i].pc # "resumed"
        /\ limiter' = [limiter EXCEPT
                           !.lastRefill = Maximum(@ - d, 0 - capacity * Scale)]
        /\ waiters' = [i \in 1..Len(waiters) |->
                           [waiters[i] EXCEPT !.wakeAt = Maximum(@ - d, 0)]]
        /\ UNCHANGED <<clockVars, rateOthers>>

NextRateLive ==
    LiveCalls \/ LiveCallsAgain \/ WaiterResumes \/ WaiterWakes \/ LiveAdvance

\* time advances, and every caller that can resume or wake does
FairRate ==
    /\ WF_vars(LiveAdvance)
    /\ \A i \in 1..MaxWaiters :
           /\ WF_vars(i <= Len(waiters) /\ WaiterResumesAt(i))
           /\ WF_vars(i <= Len(waiters) /\ WaiterWakesAt(i))

SpecRateLive == InitRate /\ [][NextRateLive]_vars /\ FairRate

(***************************************************************************)
(* HttpApi and the facades over it.                                        *)
(***************************************************************************)
\* what the transport (axios) or the rate limiter throws
RawError(hasResponse, data, hasRequest, message) ==
    [hasResponse |-> hasResponse, data |-> data, hasRequest |-> hasRequest,
     message |-> message]

\* error.response.data: absent, or an object with or without code and message
NoData == [present |-> FALSE, code |-> "", message |-> ""]

ResponseData ==
    {NoData} \cup { [present |-> TRUE, code |-> c, message |-> m] :
                       c \in {"", "INSUFFICIENT_MARGIN"}, m \in {"", "Too little margin"} }

TransportErrors ==
    { RawError(TRUE, d, TRUE, "Request failed") : d \in ResponseData }
        \cup {RawError(FALSE, NoData, TRUE, "Network Error"),
              RawError(FALSE, NoData, FALSE, "Invalid URL"),
              RawError(FALSE, NoData, FALSE, "")}

ExceedError == RawError(FALSE, NoData, FALSE, "Requested tokens exceed capacity")

Thrown(name, code, message) == <<"thrown", name, code, message>>
Returned(value) == <<"returned", value, "", "">>

\* a || b on strings
OrElse(a, b) == IF a # "" THEN a ELSE b

\* handleApiError without the branch for error.request
handleApiError_noNetwork(error) ==
    IF error.hasResponse
    THEN Thrown("HyperliquidAPIError",
                OrElse(error.data.code, "UNKNOWN_ERROR"),
                OrElse(error.data.message, "An unknown error occurred"))
    ELSE Thrown("HyperliquidAPIError", "REQUEST_SETUP_ERROR",
                OrElse(error.message, "Error setting up the request"))

handleApiError(error) ==
    IF error.hasResponse
    THEN Thrown("HyperliquidAPIError",
                OrElse(error.data.code, "UNKNOWN_ERROR"),
                OrElse(error.data.message, "An unknown error occurred"))
    ELSE IF error.hasRequest
    THEN Thrown("HyperliquidAPIError", "NETWORK_ERROR",
                "No response received from the server")
    ELSE Thrown("HyperliquidAPIError", "REQUEST_SETUP_ERROR",
                OrElse(error.message, "Error setting up the request"))

\* an operation: the facade it belongs to, the weight of its request and
\* what its own catch block does with a failure of makeRequest
Op(facade, name, weight, onFailure) ==
    [facade |-> facade, name |-> name, weight |-> weight, onFailure |-> onFailure]

HttpOps ==
    {Op("http", "makeRequest", w, "none") : w \in {capacity, capacity + 1}}
        \cup {Op("http", "get", 1, "none")}

FacadeOps ==
    {Op("info", "getUserOpenOrders", 2, "none"),
     Op("exchange", "placeOrder", 1, "none"),
     Op("custom", "cancelAllOrders", 2, "wrap"),
     Op("leaderboard", "getTraderTradeCount", 2, "zero"),
     Op("leaderboard", "getTraderOpenPositions", 2, "empty")}

\* what the operation's caller gets when makeRequest has thrown `failure`
facadeCatch(op, failure) ==
    CASE op.onFailure = "none" -> failure
      [] op.onFailure = "wrap" ->
             Thrown("Error", "", "Failed to cancel orders")
      [] op.onFailure = "zero" -> Returned("0")
      [] op.onFailure = "empty" -> Returned("no positions")

\* the get trap of createAuthenticatedProxy
AuthenticationError ==
    Thrown("AuthenticationError", "",
           "Invalid or missing private key. This method requires authentication.")

ProxyThrows(c, op) ==
    /\ op.facade \in {"exchange", "custom"}
    /\ c[op.facade] = "proxy"
    /\ ~c.isValidPrivateKey

\* a proxy over {} whose trap lets the access through has no such method
ProxyUndefined(c, op) ==
    /\ op.facade \in {"exchange", "custom"}
    /\ c[op.facade] = "proxy"
    /\ c.isValidPrivateKey

NewCall(op, pc, waiter, outcome) ==
    [op |-> op, pc |-> pc, waiter |-> waiter, dispatched |-> 0,
     cause |-> <<>>, failure |-> <<>>, outcome |-> outcome]

\* the operation up to the first await of makeRequest
Invoke(op) ==
    IF ProxyThrows(client, op)
    THEN /\ calls' = Append(calls, NewCall(op, "done", 0, AuthenticationError))
         /\ UNCHANGED rateVars
    ELSE IF ProxyUndefined(client, op)
    THEN /\ calls' = Append(calls, NewCall(op, "done", 0,
                                           Thrown("TypeError", "", "not a function")))
         /\ UNCHANGED rateVars
    ELSE /\ waitForTokenOf(op.weight)
         /\ calls' = Append(calls, NewCall(op, "waiting", Len(waiters) + 1, <<>>))

\* makeRequest / get after `await this.rateLimiter.waitForToken(weight)`,
\* dispatching whatever the limiter said
afterWait_ignoresFailure(call, waiter) ==
    [call EXCEPT !.pc = "inflight", !.dispatched = @ + 1]

afterWait(call, waiter) ==
    IF waiter.pc = "granted"
    THEN [call EXCEPT !.pc = "inflight", !.dispatched = @ + 1]
    ELSE [call EXCEPT !.pc = "done",
                      !.cause = Some(ExceedError),
                      !.failure = handleApiError(ExceedError),
                      !.outcome = facadeCatch(call.op, handleApiError(ExceedError))]

\* makeRequest / get after `await this.client.post(endpoint, payload)`
afterResponse(call, error) ==
    IF error = <<>>
    THEN [call EXCEPT !.pc = "done", !.outcome = Returned("data")]
    ELSE [call EXCEPT !.pc = "done",
                      !.cause = error,
                      !.failure = handleApiError(error[1]),
                      !.outcome = facadeCatch(call.op, handleApiError(error[1]))]

\* the calls in progress and the call that ended last: a call that ends
\* takes the place of those that ended before it
RECURSIVE Settle(_, _)
Settle(q, i) ==
    IF q = <<>> THEN <<>>
    ELSE IF Head(q).pc = "done" /\ i # 1 THEN Settle(Tail(q), i - 1)
    ELSE <<Head(q)>> \o Settle(Tail(q), i - 1)

HttpCall ==
    /\ Len(calls) < MaxHttpCalls
    /\ Len(waiters) < MaxHttpCalls
    /\ \E op \in HttpOps : Invoke(op)
    /\ UNCHANGED <<client, clockVars, httpOthers>>

FacadeCall ==
    /\ Len(calls) < MaxCalls
    /\ Len(waiters) < MaxCalls
    /\ \E op \in FacadeOps : Invoke(op)
    /\ UNCHANGED <<client, clockVars, httpOthers>>

HttpResumes ==
    \E i \in 1..Len(calls) :
        /\ calls[i].pc = "waiting"
        /\ waiters[calls[i].waiter].pc \in {"granted", "failed"}
        /\ calls' = Settle([calls EXCEPT ![i] =
                                afterWait(@, waiters[calls[i].waiter])], i)
        /\ UNCHANGED <<client, rateVars, clockVars, httpOthers>>

TransportResponds ==
    \E i \in 1..Len(calls) :
        /\ calls[i].pc = "inflight"
        /\ \E error \in {<<>>} \cup { <<e>> : e \in TransportErrors } :
               calls' = Settle([calls EXCEPT ![i] = afterResponse(@, error)], i)
        /\ UNCHANGED <<client, rateVars, clockVars, httpOthers>>

\* the limiter handed to the HttpApi is shared with the other facades: it
\* is fresh, or it has just granted its whole capacity to one of them
InitHttp ==
    /\ ConvIdle
    /\ meta = NoMeta
    /\ ApiIdle
    /\ TrIdle
    /\ InfoIdle
    /\ WsIdle
    /\ ClockIdle
    /\ PostIdle
    /\ ExchangeIdle
    /\ HttpIdle
    /\ SubIdle
    /\ BoardIdle
    /\ FilterIdle
    /\ limiter \in {NewRateLimiter(0), grant(NewRateLimiter(0), capacity)}
    /\ waiters = <<>>

NextHttp ==
    \/ HttpCall
    \/ HttpResumes
    \/ TransportResponds
    \/ WaiterResumes
    \/ WaiterWakes
    \/ Advance

SpecHttp == InitHttp /\ [][NextHttp]_vars

InitFacade ==
    /\ ConvIdle
    /\ meta = NoMeta
    /\ ApiIdle
    /\ TrIdle
    /\ InfoIdle
    /\ WsIdle
    /\ ClockIdle
    /\ PostIdle
    /\ ExchangeIdle
    /\ RateIdle
    /\ SubIdle
    /\ BoardIdle
    /\ FilterIdle
    /\ client \in { NewClient(k) : k \in PrivateKeys }
    /\ calls = <<>>

NextFacade == FacadeCall \/ HttpResumes \/ TransportResponds \/ WaiterResumes

SpecFacade == InitFacade /\ [][NextFacade]_vars

(***************************************************************************)
(* WebSocketSubscriptions: subscribing, unsubscribing and the frames of    *)
(* the venue, on a connected client.                                       *)
(***************************************************************************)
addSubscription(u, channel, callback) ==
    [u EXCEPT !.subscriptions[channel] = @ \cup {callback}]

removeSubscription(u, channel, callback) ==
    [u EXCEPT !.subscriptions[channel] = @ \ {callback}]

\* subscribeToAllMids, subscribeToTrades, ... and subscribeToCandle, after
\* the subscribe message was sent
subscribeTo(u, kind, coin, callback) ==
    IF kind = "candle"
    THEN [u EXCEPT !.listeners = Append(@, [coin |-> coin, callback |-> callback])]
    ELSE addSubscription(u, kind, callback)

\* unsubscribeFromAllMids, ..., unsubscribeFromCandle, after the unsubscribe
\* message was sent
unsubscribeFrom(u, kind, coin, callback) == removeSubscription(u, kind, callback)

\* the callbacks a frame of the channel reaches: those of handleMessage and
\* those of the listeners of subscribeToCandle
handleMessage(u, channel, coin) ==
    { <<channel, coin, cb>> : cb \in u.subscriptions[channel] }
        \cup { <<channel, coin, u.listeners[i].callback>> :
                   i \in { k \in 1..Len(u.listeners) :
                               channel = "candle" /\ u.listeners[k].coin = coin } }

Subscribes ==
    \E kind \in SubKinds, callback \in Callbacks :
        \E coin \in SubCoins(kind) :
            /\ isConnected(wsc)
            /\ kind = "candle" => Len(subs.listeners) < MaxListeners
            /\ wsc' = sendMessage(wsc, "subscribe")
            /\ subs' = subscribeTo(subs, kind, coin, callback)
            /\ unsub' = unsub \ {<<kind, coin, callback>>}
            /\ invoked' = {}
            /\ UNCHANGED <<userClosed, subOthers>>

Unsubscribes ==
    \E kind \in SubKinds, callback \in Callbacks :
        \E coin \in SubCoins(kind) :
            /\ isConnected(wsc)
            /\ wsc' = sendMessage(wsc, "unsubscribe")
            /\ subs' = unsubscribeFrom(subs, kind, coin, callback)
            /\ unsub' = unsub \cup {<<kind, coin, callback>>}
            /\ invoked' = {}
            /\ UNCHANGED <<userClosed, subOthers>>

\* a frame of a channel arrives; the venue may have sent it before it saw
\* the unsubscribe message
SubFrame ==
    \E kind \in SubKinds :
        \E coin \in SubCoins(kind) :
            /\ isConnected(wsc)
            /\ invoked' = handleMessage(subs, kind, coin)
            /\ UNCHANGED <<subs, unsub, wsVars, subOthers>>

InitSub ==
    /\ ConvIdle
    /\ meta = NoMeta
    /\ ApiIdle
    /\ TrIdle
    /\ InfoIdle
    /\ wsc = ConnectedClient
    /\ userClosed = FALSE
    /\ ClockIdle
    /\ PostIdle
    /\ ExchangeIdle
    /\ RateIdle
    /\ HttpIdle
    /\ SubIdle
    /\ BoardIdle
    /\ FilterIdle

NextSub == Subscribes \/ Unsubscribes \/ SubFrame

SpecSub == InitSub /\ [][NextSub]_vars

(***************************************************************************)
(* LeaderboardAPI: the cache of getLeaderboard.  The response of the venue *)
(* is a leaderboard object, never null.                                    *)
(***************************************************************************)
cacheExpiryMs == 24 * 60 * 60 * 1000

BoardData == {"board1", "board2"}

\* isCacheValid with the comparison turned around
isCacheValid_expired(c, t) ==
    c.data # None /\ t - c.timestamp > cacheExpiryMs

isCacheValid(c, t) ==
    c.data # None /\ t - c.timestamp < cacheExpiryMs

clearCache(c) == NewCache

\* getLeaderboard up to its return or its await
getLeaderboard(c, b, t, log) ==
    IF isCacheValid(c, t)
    THEN [b EXCEPT !.last = [at |-> t, log |-> log, dispatched |-> FALSE,
                             outcome |-> Some(Returned(c.data[1]))]]
    ELSE [b EXCEPT !.pending = @ + 1,
                   !.last = [at |-> t, log |-> log, dispatched |-> TRUE,
                             outcome |-> None]]

\* the catch block of getLeaderboard
getLeaderboardCatch(c, error) ==
    IF c.data # None THEN Returned(c.data[1]) ELSE handleApiError(error)

GetLeaderboard ==
    /\ isCacheValid(board, now) \/ boardCalls.pending < MaxBoardCalls
    /\ boardCalls' = getLeaderboard(board, boardCalls, now, boardLog)
    /\ UNCHANGED <<board, boardLog, clockVars, boardOthers>>

LeaderboardResponds ==
    \E leaderboard \in BoardData :
        /\ boardCalls.pending > 0
        /\ board' = [data |-> Some(leaderboard), timestamp |-> now]
        /\ boardLog' = [event |-> "success", at |-> now, data |-> leaderboard]
        /\ boardCalls' = [boardCalls EXCEPT !.pending = @ - 1,
                                            !.done = Some(Returned(leaderboard))]
        /\ UNCHANGED <<clockVars, boardOthers>>

LeaderboardFails ==
    \E error \in TransportErrors :
        /\ boardCalls.pending > 0
        /\ boardCalls' = [boardCalls EXCEPT
                              !.pending = @ - 1,
                              !.done = Some(getLeaderboardCatch(board, error))]
        /\ UNCHANGED <<board, boardLog, clockVars, boardOthers>>

ClearCache ==
    /\ board' = clearCache(board)
    /\ boardLog' = [event |-> "clear", at |-> now, data |-> ""]
    /\ UNCHANGED <<boardCalls, clockVars, boardOthers>>

BoardSteps == {1, cacheExpiryMs - 1}

BoardAdvance ==
    \E d \in BoardSteps :
        /\ ticks < MaxTicks
        /\ now' = now + d
        /\ ticks' = ticks + 1
        /\ UNCHANGED <<boardVars, boardOthers>>

InitBoard ==
    /\ ConvIdle
    /\ meta = NoMeta
    /\ ApiIdle
    /\ TrIdle
    /\ ExtIdle

NextBoard ==
    \/ GetLeaderboard
    \/ LeaderboardResponds
    \/ LeaderboardFails
    \/ ClearCache
    \/ BoardAdvance

SpecBoard == InitBoard /\ [][NextBoard]_vars

(***************************************************************************)
(* LeaderboardAPI.filterLeaderboard.  The numeric texts of an entry stand  *)
(* as the numbers parseFloat reads from them.                              *)
(***************************************************************************)
TimeWindows == {"allTime", "month"}

Performances == [vlm : {1, 2}, pnl : {-1, 1}, roi : {1}]

\* windowPerformances: pairs of a window and its performance
WindowPerformances ==
    {<<>>} \cup { <<<<w, p>>>> : w \in TimeWindows, p \in Performances }

LeaderboardEntries ==
    [accountValue : {1, 2}, windowPerformances : WindowPerformances]

RECURSIVE RowsUpTo(_)
RowsUpTo(n) ==
    IF n = 0 THEN {<<>>}
    ELSE RowsUpTo(n - 1)
             \cup { Append(r, e) : r \in { q \in RowsUpTo(n - 1) : Len(q) = n - 1 },
                                   e \in LeaderboardEntries }

\* a LeaderboardFilter: a threshold is absent (None) or given
LeaderboardFilters ==
    [timeWindow : {None, Some("month")},
     minAccountValue : {None, Some(2)},
     minVolume : {None, Some(2)},
     maxVolume : {None, Some(1)},
     minPnL : {None, Some(0), Some(1)},
     minRoi : {None, Some(2)},
     maxTrades : {None, Some(1)},
     maxAccounts : {None, Some(1)}]

\* !x of an optional number: absent or 0
Falsy(x) == x = None \/ x[1] = 0

\* filter.timeWindow || 'allTime'
windowOf(filter) ==
    IF filter.timeWindow = None THEN "allTime" ELSE filter.timeWindow[1]

\* entry.windowPerformances.find(([window]) => window === w)?.[1]
performanceOf(entry, w) ==
    LET wp == entry.windowPerformances
        hits == { i \in 1..Len(wp) : wp[i][1] = w }
    IN IF hits = {} THEN None
       ELSE Some(wp[CHOOSE i \in hits : \A j \in hits : i <= j][2])

\* the callback of leaderboardRows.filter
initialFilter(entry, filter) ==
    LET performance == performanceOf(entry, windowOf(filter))
    IN IF performance = None THEN FALSE
       ELSE LET perf == performance[1]
                volume == perf.vlm
            IN /\ (Falsy(filter.minAccountValue)
                       \/ entry.accountValue >= filter.minAccountValue[1])
               /\ (Falsy(filter.minVolume) \/ volume >= filter.minVolume[1])
               /\ (Falsy(filter.maxVolume) \/ volume <= filter.maxVolume[1])
               /\ (Falsy(filter.minPnL) \/ perf.pnl >= filter.minPnL[1])
               /\ (Falsy(filter.minRoi) \/ perf.roi >= filter.minRoi[1])

\* Array.prototype.filter, keeping the row and the count that goes with it
RECURSIVE FilterRows(_, _, _, _)
FilterRows(rows, counts, keep(_, _), i) ==
    IF i > Len(rows) THEN <<>>
    ELSE LET rest == FilterRows(rows, counts, keep, i + 1)
         IN IF keep(rows[i], counts[i])
            THEN <<[entry |-> rows[i], tradeCount |-> counts[i]]>> \o rest
            ELSE rest

\* filterLeaderboard; tradeCounts[i] is what getTraderTradeCount answers for
\* row i, None where it is not asked
filterLeaderboard(leaderboard, filter, tradeCounts) ==
    LET initial(e, c) == initialFilter(e, filter)
        final(e, c) == initialFilter(e, filter) /\ c[1] <= filter.maxTrades[1]
        none == [i \in 1..Len(leaderboard) |-> None]
    IN IF ~Falsy(filter.maxTrades)
       THEN FilterRows(leaderboard, tradeCounts, final, 1)
       ELSE FilterRows(leaderboard, none, initial, 1)

TradeCounts == {0, 2}

FilterLeaderboard ==
    /\ fIn # None
    /\ fOut = None
    /\ \E tradeCounts \in [1..Len(fIn[1].leaderboard) -> {Some(c) : c \in TradeCounts}] :
           fOut' = Some(filterLeaderboard(fIn[1].leaderboard, fIn[1].filter,
                                          tradeCounts))
    /\ UNCHANGED <<fIn, filterOthers>>

InitFilter ==
    /\ ConvIdle
    /\ meta = NoMeta
    /\ ApiIdle
    /\ TrIdle
    /\ InfoIdle
    /\ WsIdle
    /\ ClockIdle
    /\ PostIdle
    /\ ExchangeIdle
    /\ RateIdle
    /\ HttpIdle
    /\ SubIdle
    /\ BoardIdle
    /\ fIn \in { Some([leaderboard |-> l, filter |-> f]) :
                    l \in RowsUpTo(MaxRows), f \in LeaderboardFilters }
    /\ fOut = None

NextFilter == FilterLeaderboard

SpecFilter == InitFilter /\ [][NextFilter]_vars

(***************************************************************************)
(* Properties of the registry.                                             *)
(***************************************************************************)
E2I == conv.exchangeToInternalNameMap.entries
A2I == conv.assetToIndexMap.entries

SpotNames == { m.name[1] : m \in { x \in SpotMarkets : x.name # None } }
TokenNameSet == { TokenNames[i] : i \in 1..Len(TokenNames) }
AllNames == PerpNames \cup SpotNames \cup TokenNameSet \cup {SplitSlashFirst(n) : n \in SpotNames}

\* every exchange key and internal name a registry of the model can hold,
\* the bare names, the empty string and a symbol no registry holds
Probe ==
    UNION { { n, n \o DASH \o NumToStr(i), n \o PERP_MARK \o NumToStr(i),
              n \o SPOT_MARK \o NumToStr(i) } :
            n \in AllNames, i \in 0..MaxUniverse }
    \cup { <<>>, <<"Z", "-", "9">> }

\* what resolve, reverse and assetIndex return for every probed input
Observe(c) ==
    [s \in Probe |-> <<convertSymbol(c, s, ""), convertSymbol(c, s, "reverse"),
                       getAssetIndex(c, s)>>]

\* a step in which a refresh finishes
RefreshFinishes == nextRefresh' = nextRefresh /\ inflight' # inflight

\* C1: a refresh in which a fetch fails or a body cannot be parsed leaves
\* resolve, reverse and assetIndex as they were before the refresh
C1_FailedRefreshKeepsRegistry ==
    [][(RefreshFinishes /\ (lastRefresh'.rejected \/ lastRefresh'.unparsable))
          => Observe(conv') = Observe(conv)]_vars

\* C2: in every state a reader can run in, the two maps of the converter
\* were built by the same refresh
C2_SameGeneration ==
    conv.exchangeToInternalNameMap.id = conv.assetToIndexMap.id

\* a second generation is installed, a refresh is in flight and a reader ran
C2_Witness ==
    /\ conv.exchangeToInternalNameMap.id >= 2
    /\ inflight # {}
    /\ lastQuery.mode # "none"
    /\ lastQuery.out = convertSymbol(conv, lastQuery.sym, lastQuery.mode)

\* C3: a string that is not a key of the forward map resolves to itself and
\* has no internal name; a string that is not a value of it reverses to
\* itself and has no asset index
C3_FailOpen ==
    \A s \in Probe :
        /\ ~MapHas(E2I, s) =>
               convertSymbol(conv, s, "") = s /\ getInternalName(conv, s) = None
        /\ s \notin MapValues(E2I) =>
               convertSymbol(conv, s, "reverse") = s /\ getAssetIndex(conv, s) = None

\* a populated registry was asked for a symbol it does not hold
C3_Witness ==
    /\ Len(E2I) >= 2
    /\ lastQuery.sym = <<"Z", "-", "9">>
    /\ lastQuery.mode = "reverse"
    /\ lastQuery.out = lastQuery.sym
    /\ ~MapHas(E2I, lastQuery.sym) /\ lastQuery.sym \notin MapValues(E2I)

\* C4: for every exchange key k of the registry, reverse(resolve(k)) = k and
\* resolve(reverse(resolve(k))) = resolve(k)
C4_RoundTrip ==
    \A k \in MapKeys(E2I) :
        LET r == convertSymbol(conv, k, "")
        IN /\ convertSymbol(conv, r, "reverse") = k
           /\ convertSymbol(conv, convertSymbol(conv, r, "reverse"), "") = r

\* the registry holds two spot listings of one market name and the reader
\* reversed the internal name of the first
C4_Witness ==
    /\ MapHas(E2I, <<"A", "/", "U", "-", "0">>)
    /\ MapHas(E2I, <<"A", "/", "U", "-", "1">>)
    /\ lastQuery.sym = <<"A", "-", "S", "P", "O", "T", "-", "0">>
    /\ lastQuery.mode = "reverse"
    /\ lastQuery.out = <<"A", "/", "U", "-", "0">>

\* the refresh of the metadata has installed its maps
Installed == conv.exchangeToInternalNameMap.id = 1

\* the listings of the installed metadata, each with the names the
\* construction rule gives it
Listings ==
    (IF meta.perp.k = "ok"
     THEN { [class |-> "PERP", base |-> meta.perp.universe[i].name, index |-> i - 1,
             key |-> perpExchangeName(meta.perp.universe[i].name, i - 1),
             internal |-> perpInternalName(meta.perp.universe[i].name, i - 1)] :
            i \in 1..Len(meta.perp.universe) }
     ELSE {})
    \cup
    (IF meta.spot.k = "ok"
     THEN { [class |-> "SPOT",
             base |-> spotBaseName(meta.spot.universe[i].name[1]),
             index |-> meta.spot.universe[i].index,
             key |-> spotExchangeName(meta.spot.universe[i].name[1],
                                      meta.spot.universe[i].index),
             internal |-> spotInternalName(meta.spot.universe[i].name[1],
                                           meta.spot.universe[i].index)] :
            i \in 1..Len(meta.spot.universe) }
     ELSE {})

\* C5: two listings of one generation with the same base name and market
\* class but different index have different internal names, each exchange
\* key resolves to its own internal name, and the two internal names
\* reverse to different exchange keys
C5_DuplicateNames ==
    Installed =>
        \A l1 \in Listings, l2 \in Listings :
            (l1.class = l2.class /\ l1.base = l2.base /\ l1.index # l2.index) =>
                /\ l1.internal # l2.internal
                /\ convertSymbol(conv, l1.key, "") = l1.internal
                /\ convertSymbol(conv, l2.key, "") = l2.internal
                /\ convertSymbol(conv, l1.internal, "reverse") = l1.key
                /\ convertSymbol(conv, l2.internal, "reverse") = l2.key
                /\ l1.key # l2.key

\* the installed metadata lists one perpetual ticker twice and one spot
\* market twice
C5_Witness ==
    /\ Installed
    /\ \E l1 \in Listings, l2 \in Listings :
           l1.class = "PERP" /\ l2.class = "PERP" /\ l1.base = l2.base
           /\ l1.index # l2.index
    /\ \E l1 \in Listings, l2 \in Listings :
           l1.class = "SPOT" /\ l2.class = "SPOT" /\ l1.base = l2.base
           /\ l1.index # l2.index

\* C6: every asset index under a -SPOT- name is at least 10000 and every
\* asset index under a -PERP- name is below 10000
C6_IndexOffset ==
    \A i \in 1..Len(A2I) :
        /\ Includes(A2I[i][1], SPOT_MARK) => A2I[i][2] >= 10000
        /\ Includes(A2I[i][1], PERP_MARK) => A2I[i][2] < 10000

\* the registry holds a perpetual and a spot entry at the same position
C6_Witness ==
    /\ Installed
    /\ \E i \in 1..Len(A2I), j \in 1..Len(A2I) :
           /\ Includes(A2I[i][1], PERP_MARK) /\ Includes(A2I[j][1], SPOT_MARK)
           /\ A2I[j][2] = A2I[i][2] + 10000
    /\ Len(getAllAssets(conv).perp) >= 1 /\ Len(getAllAssets(conv).spot) >= 1

\* C7: after a successful refresh the spot market m at position p whose
\* first token is entry a of the tokens array is registered as
\* "m-p" -> "<tokens[a].name>-SPOT-p" with asset index 10000 + p
C7_SpotNaming ==
    (Installed /\ meta.spot.k = "ok") =>
        \A i \in 1..Len(meta.spot.universe) :
            LET market == meta.spot.universe[i]
                p == i - 1
                base == meta.spot.tokens[market.tokens[1][1] + 1]
                internal == base \o SPOT_MARK \o NumToStr(p)
            IN /\ getInternalName(conv, market.name[1] \o DASH \o NumToStr(p))
                      = Some(internal)
               /\ getAssetIndex(conv, internal) = Some(10000 + p)

C9_ReadyAfterSuccessfulRefresh ==
    caller = "proceeding" => apiSucceeded >= 1

(***************************************************************************)
(* Properties of the translation.                                          *)
(***************************************************************************)
\* the digits of a literal without sign and point, and the number of
\* digits after the point
LiteralDigits(x) == SelectSeq(Unsigned(x), LAMBDA ch : ch # ".")
LiteralScale(x) ==
    LET u == Unsigned(x)
    IN IF \E p \in 1..Len(u) : u[p] = "."
       THEN Len(u) - (CHOOSE p \in 1..Len(u) : u[p] = ".")
       ELSE 0

\* an integer or decimal literal: an optional sign, digits, and at most one
\* point that is followed by a digit
IsLiteral(x) ==
    LET u == Unsigned(x)
        points == { p \in 1..Len(u) : u[p] = "." }
    IN /\ u # <<>>
       /\ \A p \in 1..Len(u) : IsDigit(u[p]) \/ u[p] = "."
       /\ Cardinality(points) <= 1
       /\ u[Len(u)] # "."

RECURSIVE Pow10(_)
Pow10(n) == IF n = 0 THEN 1 ELSE 10 * Pow10(n - 1)

\* the number y is the value the literal x denotes
IsNumberOf(y, x) ==
    /\ TypeOf(y) = "num"
    /\ ContentOf(y)[1] = (x[1] = "-")
    /\ ContentOf(y)[2] * Pow10(LiteralScale(x))
           = DecValue(LiteralDigits(x)) * Pow10(ContentOf(y)[3])

\* resolve of a field value: the internal name of a key, the value otherwise
Resolved(c, x) ==
    IF TypeOf(x) = "str" /\ MapHas(c.exchangeToInternalNameMap.entries, ContentOf(x))
    THEN JStr(MapGet(c.exchangeToInternalNameMap.entries, ContentOf(x))[1])
    ELSE x

RECURSIVE Conforms(_, _, _, _)
Conforms(c, fields, x, y) ==
    IF TypeOf(x) = "arr"
    THEN /\ TypeOf(y) = "arr"
         /\ Len(ContentOf(y)) = Len(ContentOf(x))
         /\ \A i \in 1..Len(ContentOf(x)) :
                Conforms(c, fields, ContentOf(x)[i], ContentOf(y)[i])
    ELSE IF TypeOf(x) = "obj"
    THEN /\ TypeOf(y) = "obj"
         /\ Len(ContentOf(y)) = Len(ContentOf(x))
         /\ \A i \in 1..Len(ContentOf(x)) :
                LET key == ContentOf(x)[i][1]
                    xv == ContentOf(x)[i][2]
                    yv == ContentOf(y)[i][2]
                IN /\ ContentOf(y)[i][1] = key
                   /\ IF key \in fields
                      THEN yv = Resolved(c, xv)
                      ELSE IF key = "side"
                      THEN yv = (IF xv = JStr(<<"A">>)
                                 THEN JStr(<<"s", "e", "l", "l">>)
                                 ELSE IF xv = JStr(<<"B">>)
                                 THEN JStr(<<"b", "u", "y">>)
                                 ELSE xv)
                      ELSE Conforms(c, fields, xv, yv)
    ELSE IF TypeOf(x) = "str" /\ IsLiteral(ContentOf(x))
    THEN IsNumberOf(y, ContentOf(x))
    ELSE y = x

\* C10: the translated payload has the shape of the payload; a symbol field
\* holds resolve of its value, a side field holds sell for A, buy for B and
\* its value otherwise, every other string leaf that is an integer or
\* decimal literal is its number, and every other leaf is unchanged
C10_TranslateEmbedded ==
    tOut # None => Conforms(conv, tFields, tIn, tOut[1])

\* a payload with a resolved symbol field, a coerced side and a literal
\* next to one another was translated
C10_Witness ==
    /\ tOut # None
    /\ tFields = {"coin", "symbol"}
    /\ tIn = JArr(<<JObj(<<<<"coin", JStr(<<"A", "-", "0">>)>>,
                          <<"side", JStr(<<"A">>)>>>>)>>)
    /\ tOut[1] =
           JArr(<<JObj(<<<<"coin", JStr(<<"A", "-", "P", "E", "R", "P", "-", "0">>)>>,
                         <<"side", JStr(<<"s", "e", "l", "l">>)>>>>)>>)

(***************************************************************************)
(* Properties of the info facades.                                         *)
(***************************************************************************)
\* C11: a query method called with the raw flag set returns the body of the
\* transport unchanged and has not waited for the registry
C11_RawReturnsTransportResponse ==
    (iCall.pc = "returned" /\ iCall.raw) =>
        iOut = Some(iResp) /\ ~iCall.waited

\* C12: for every payload, symbol-field set and market-class hint the
\* traversal of WebSocketSubscriptions returns what the traversal of
\* SymbolConverter returns on the same registry, and so does convertSymbol
\* in both directions
C12_OneTraversalRule ==
    (tOut # None /\ wOut # None) =>
        /\ wOut = tOut
        /\ \A s \in QuerySymbols, mode \in {"", "reverse"} :
               wsConvertSymbol(conv, s, mode, tMode) = convertSymbol(conv, s, mode)

(***************************************************************************)
(* Properties of the WebSocket client.                                     *)
(***************************************************************************)
\* C16: while close() is the last call of the user, no step creates a
\* socket, counts a reconnect attempt or starts the ping timer
C16_StaysClosed ==
    [][(userClosed /\ userClosed') =>
           /\ Len(wsc'.sockets) = Len(wsc.sockets)
           /\ wsc'.reconnectAttempts <= wsc.reconnectAttempts
           /\ (wsc'.pingInterval => wsc.pingInterval)]_vars

(***************************************************************************)
(* Properties of the post requests.                                        *)
(***************************************************************************)
Pending(i) == posts[i].status = "pending"

\* C13: two calls in flight at the same time have different correlation
\* ids, and a call is settled only by the frame that answers it
C13_IndependentCorrelation ==
    /\ \A i \in 1..Len(posts), j \in 1..Len(posts) :
           (i # j /\ Pending(i) /\ Pending(j)) => posts[i].id # posts[j].id
    /\ \A i \in 1..Len(posts) : posts[i].by \in {0, i}

C17_CloseRejectsPending ==
    [][close => \A i \in 1..Len(posts) :
                    Pending(i) => posts'[i].status = "rejected"]_vars

(***************************************************************************)
(* Properties of the facade life cycle.                                    *)
(***************************************************************************)
\* C15: once disconnect() has returned, no step starts a registry refresh
C15_NoRefreshAfterDisconnect ==
    [][apiClosed => apiStarted' = apiStarted]_vars

(***************************************************************************)
(* Properties of the authenticated actions.                                *)
(***************************************************************************)
\* C18: the nonces of the signed actions of one wallet strictly increase in
\* the order the actions are issued
C18_NoncesStrictlyIncrease ==
    \A i \in 1..Len(actions), j \in 1..Len(actions) :
        (i < j /\ ~actions[i].threw /\ ~actions[j].threw) =>
            actions[i].nonce < actions[j].nonce


\* C19: waitForToken(w) with w above the capacity throws in the call itself:
\* the caller is failed in the step that creates it, it never waits, and
\* that step leaves tokens and lastRefill as they were, stale or not.
C19_ExceedingCapacityFailsAtOnce ==
    /\ [](\A i \in 1..Len(waiters) :
              waiters[i].w > capacity =>
                  /\ waiters[i].pc = "failed"
                  /\ ~waiters[i].slept)
    /\ [][\A i \in 1..Len(waiters') :
              (i > Len(waiters) /\ waiters'[i].w > capacity) =>
                  /\ waiters'[i].pc = "failed"
                  /\ limiter' = limiter]_vars

\* a call above the capacity has failed while the bucket was neither full
\* nor refilled up to the current time
C19_Witness ==
    \E i \in 1..Len(waiters) :
        /\ waiters[i].w > capacity
        /\ waiters[i].pc = "failed"
        /\ limiter.tokens < capacity * Scale
        /\ limiter.lastRefill < now

\* C20: a call with w <= capacity is granted only by the step that finds at
\* least w tokens in the bucket, and that step removes exactly w; every refill
\* sets tokens to min(capacity, tokens + elapsed * refillRate); a caller that
\* finds fewer than w tokens is put to sleep with the bucket untouched; a
\* caller alone on a fresh limiter is never put to sleep.
C20_GrantedExactlyWhenCovered ==
    /\ [](\A i \in 1..Len(waiters) :
              /\ waiters[i].pc = "granted" => waiters[i].w <= capacity
              /\ (Len(waiters) = 1 /\ waiters[i].w <= capacity) =>
                     /\ waiters[i].pc \in {"resumed", "granted"}
                     /\ ~waiters[i].slept)
    /\ [][\A i \in 1..Len(waiters') :
              /\ i > Len(waiters) => waiters'[i].pc \in {"resumed", "failed"}
              /\ (i <= Len(waiters) /\ waiters[i].pc # "granted"
                    /\ waiters'[i].pc = "granted") =>
                     /\ waiters[i].pc = "resumed"
                     /\ limiter.tokens >= waiters[i].w * Scale
                     /\ limiter'.tokens = limiter.tokens - waiters[i].w * Scale
                     /\ limiter'.lastRefill = limiter.lastRefill
              /\ (i <= Len(waiters) /\ waiters[i].pc # "sleeping"
                    /\ waiters'[i].pc = "sleeping") =>
                     /\ waiters[i].pc = "resumed"
                     /\ limiter.tokens < waiters[i].w * Scale
                     /\ limiter' = limiter
              /\ (waiters'[i].pc = "resumed"
                    /\ (i > Len(waiters) \/ waiters[i].pc = "sleeping")) =>
                     /\ limiter'.lastRefill = now
                     /\ limiter'.tokens =
                            IF limiter.tokens + (now - limiter.lastRefill)
                                   > capacity * Scale
                            THEN capacity * Scale
                            ELSE limiter.tokens + (now - limiter.lastRefill)]_vars

\* the fresh limiter has granted the whole capacity at once, and a second
\* caller that found the bucket empty has slept and then been granted
C20_Witness ==
    \E i \in 1..Len(waiters), j \in 1..Len(waiters) :
        /\ waiters[i].w = capacity
        /\ waiters[i].pc = "granted"
        /\ ~waiters[i].slept
        /\ waiters[j].pc = "granted"
        /\ waiters[j].slept

\* the weight granted so far, counted like tokens
RECURSIVE GrantedUpTo(_)
GrantedUpTo(n) ==
    IF n = 0 THEN 0
    ELSE GrantedUpTo(n - 1)
             + (IF waiters[n].pc = "granted" THEN waiters[n].w * Scale ELSE 0)

\* C21: for every interleaving of callers with weights in 1..capacity (a
\* weight above the capacity fails and takes nothing), the bucket holds
\* between 0 and capacity tokens in every reachable state, and the weight
\* granted so far plus the tokens left never exceeds the initial capacity
\* plus what the elapsed time has refilled: no token is granted twice.
C21_TokensWithinCapacity ==
    /\ 0 <= limiter.tokens
    /\ limiter.tokens <= capacity * Scale
    /\ limiter.lastRefill <= now
    /\ GrantedUpTo(Len(waiters)) + limiter.tokens
           <= capacity * Scale + limiter.lastRefill

\* after the whole capacity was granted, two callers that both found the
\* bucket short have slept and both been granted
C21_Witness ==
    \E i \in 1..Len(waiters), j \in 1..Len(waiters) :
        /\ i # j
        /\ waiters[i].pc = "granted" /\ waiters[i].slept
        /\ waiters[j].pc = "granted" /\ waiters[j].slept
        /\ GrantedUpTo(Len(waiters)) > capacity * Scale

\* the weight granted at clock values from t1 to t2
RECURSIVE GrantedWithin(_, _, _)
GrantedWithin(n, t1, t2) ==
    IF n = 0 THEN 0
    ELSE GrantedWithin(n - 1, t1, t2)
             + (IF /\ waiters[n].pc = "granted"
                   /\ t1 <= waiters[n].grantedAt
                   /\ waiters[n].grantedAt <= t2
                THEN waiters[n].w * Scale ELSE 0)

GrantTimes == { waiters[i].grantedAt :
                    i \in { k \in 1..Len(waiters) : waiters[k].pc = "granted" } }

\* C22: over every interval of time, the weight granted by the limiter to
\* all its callers is at most capacity + refillRate * (length of the interval).
C22_RateBound ==
    \A t1 \in GrantTimes, t2 \in GrantTimes :
        t1 <= t2 =>
            GrantedWithin(Len(waiters), t1, t2) <= capacity * Scale + (t2 - t1)

\* grants at two different times reach the bound: the whole capacity, then
\* everything the time between them has refilled
C22_Witness ==
    \E t1 \in GrantTimes, t2 \in GrantTimes :
        /\ t1 < t2
        /\ GrantedWithin(Len(waiters), t1, t2) = capacity * Scale + (t2 - t1)

\* C23: every waitForToken(w) call with w <= capacity is eventually granted,
\* when time advances and every caller is scheduled fairly, also while
\* other callers keep asking the same bucket for smaller weights.
C23_EventuallyGranted ==
    \A i \in 1..MaxWaiters :
        (i <= Len(waiters) /\ waiters[i].pc \in {"resumed", "sleeping"})
            ~> (i <= Len(waiters) /\ waiters[i].pc = "granted")

\* C24: a call of makeRequest or get dispatches its transport request only
\* in a step that finds its weight granted by the rate limiter; a call whose
\* grant failed dispatches nothing; no call dispatches more than once, and a
\* failed dispatch ends the call with an outcome for the caller.
C24_DispatchOnlyAfterGrant ==
    /\ [](\A i \in 1..Len(calls) :
              /\ calls[i].dispatched <= 1
              /\ calls[i].dispatched = 1 =>
                     waiters[calls[i].waiter].pc = "granted"
              /\ waiters[calls[i].waiter].pc # "granted" => calls[i].pc = "waiting"
                     \/ (calls[i].pc = "done" /\ calls[i].dispatched = 0)
              /\ (calls[i].pc = "done" /\ calls[i].cause # None) =>
                     calls[i].outcome # <<>>)
    /\ [][\A i \in 1..Len(calls), j \in 1..Len(calls') :
              (calls'[j].waiter = calls[i].waiter
                 /\ calls'[j].dispatched # calls[i].dispatched) =>
                  /\ waiters[calls[i].waiter].pc = "granted"
                  /\ calls[i].pc = "waiting"]_vars

\* a call that had to sleep for its weight has dispatched once, the
\* transport has failed and the call has ended
C24_Witness ==
    \E i \in 1..Len(calls) :
        /\ calls[i].dispatched = 1
        /\ waiters[calls[i].waiter].slept
        /\ calls[i].pc = "done"
        /\ calls[i].cause # None

\* the code and message the caller of makeRequest or get is to see
ExpectedCode(error) ==
    IF error.hasResponse
    THEN (IF error.data.present /\ error.data.code # ""
          THEN error.data.code ELSE "UNKNOWN_ERROR")
    ELSE IF error.hasRequest THEN "NETWORK_ERROR"
    ELSE "REQUEST_SETUP_ERROR"

\* C25: a call of makeRequest or get that has failed ends with a thrown
\* HyperliquidAPIError and never with a value: with the response's code and
\* message when the server responded (UNKNOWN_ERROR for a missing or empty
\* code), NETWORK_ERROR when the request was sent and nothing came back,
\* REQUEST_SETUP_ERROR otherwise; a call that has not failed returns the data.
C25_FailuresAreTyped ==
    \A i \in 1..Len(calls) :
        calls[i].pc = "done" =>
            IF calls[i].cause = None
            THEN calls[i].outcome = Returned("data")
            ELSE /\ calls[i].outcome[1] = "thrown"
                 /\ calls[i].outcome[2] = "HyperliquidAPIError"
                 /\ calls[i].outcome[3] = ExpectedCode(calls[i].cause[1])
                 /\ (calls[i].cause[1].hasResponse
                       /\ calls[i].cause[1].data.message # "") =>
                        calls[i].outcome[4] = calls[i].cause[1].data.message

\* a call of get has failed without a response after its request was sent
C25_Witness ==
    \E i \in 1..Len(calls) :
        /\ calls[i].op.name = "get"
        /\ calls[i].pc = "done" /\ calls[i].cause # None
        /\ ~calls[i].cause[1].hasResponse /\ calls[i].cause[1].hasRequest
        /\ calls[i].outcome[3] = "NETWORK_ERROR"

\* C26: when makeRequest has thrown its HyperliquidAPIError inside a facade
\* operation, the operation's caller gets that very error.
C26_FacadesPropagateTyped ==
    \A i \in 1..Len(calls) :
        (calls[i].pc = "done" /\ calls[i].failure # <<>>) =>
            calls[i].outcome = calls[i].failure

\* C27: isAuthenticated() is true exactly when exchange and custom are the
\* real facades, and on a client for which it is false every access to a
\* member of exchange or custom has thrown AuthenticationError in the step
\* of the access, without asking the rate limiter and without a dispatch.
C27_UnauthenticatedAccessThrows ==
    /\ isAuthenticated(client) <=>
           (client.exchange = "ExchangeAPI" /\ client.custom = "CustomOperations")
    /\ client.exchange = "proxy" <=> client.custom = "proxy"
    /\ \A i \in 1..Len(calls) :
           (calls[i].op.facade \in {"exchange", "custom"}
              /\ ~isAuthenticated(client)) =>
               /\ calls[i].pc = "done"
               /\ calls[i].outcome = AuthenticationError
               /\ calls[i].waiter = 0
               /\ calls[i].dispatched = 0

\* on a client without a valid key a member of exchange and a member of
\* custom have been accessed
C27_Witness ==
    /\ ~isAuthenticated(client)
    /\ \E i \in 1..Len(calls), j \in 1..Len(calls) :
           /\ calls[i].op.facade = "exchange"
           /\ calls[j].op.facade = "custom"
           /\ calls[i].outcome = AuthenticationError
           /\ calls[j].outcome = AuthenticationError

\* C28: no action of ExchangeAPI throws to its caller because its symbol is
\* absent from the registry.
C28_NoSymbolNotFound ==
    \A i \in 1..Len(actions) : ~actions[i].threw

\* C29: in every registry generation, installed or initial, no two exchange
\* keys map to one internal name and the keys of the index map are the
\* values of the forward map; in an installed generation every listing of
\* the metadata has its own exchange key and the forward map has no other.
C29_Bijection ==
    /\ \A k1 \in MapKeys(E2I), k2 \in MapKeys(E2I) :
           k1 # k2 => MapGet(E2I, k1) # MapGet(E2I, k2)
    /\ \A i \in 1..Len(E2I), j \in 1..Len(E2I) : i # j => E2I[i][1] # E2I[j][1]
    /\ MapKeys(A2I) = MapValues(E2I)
    /\ Len(A2I) = Len(E2I)
    /\ Installed =>
           /\ \A l1 \in Listings, l2 \in Listings : l1 # l2 => l1.key # l2.key
           /\ MapKeys(E2I) = { l.key : l \in Listings }
           /\ \A l \in Listings : MapGet(E2I, l.key) = Some(l.internal)

\* the installed generation holds a perpetual ticker twice next to spot
\* markets, one of them with the ticker as its base
C29_Witness ==
    /\ Installed
    /\ Len(E2I) >= 4
    /\ \E l1 \in Listings, l2 \in Listings, l3 \in Listings :
           /\ l1.class = "PERP" /\ l2.class = "PERP" /\ l3.class = "SPOT"
           /\ l1.base = l2.base /\ l1.index # l2.index
           /\ l3.base = l1.base /\ l3.index = l1.index

\* C30: a callback whose unsubscribeFromX has completed, and which was not
\* subscribed again since, is not invoked by a frame of that subscription.
C30_NoCallbackAfterUnsubscribe ==
    invoked \cap unsub = {}

\* C31: a getLeaderboard call that begins less than 24 hours after the last
\* response was cached, with no clearCache since, returns that response
\* without dispatching a request; a call that begins when clearCache was the
\* last event of the cache dispatches a request.
C31_CachedFor24Hours ==
    LET call == boardCalls.last
    IN /\ (call.log.event = "success" /\ call.at - call.log.at < cacheExpiryMs)
              => (~call.dispatched /\ call.outcome = Some(Returned(call.log.data)))
       /\ call.log.event = "clear" => call.dispatched

\* a call served from the cache one millisecond before it expires, and a call
\* after clearCache
C31_Witness ==
    LET call == boardCalls.last
    IN \/ /\ call.log.event = "success"
          /\ call.at - call.log.at = cacheExpiryMs - 1
          /\ ~call.dispatched
       \/ /\ call.log.event = "clear"
          /\ call.at > call.log.at
          /\ call.dispatched
          /\ boardCalls.done # None

\* C32: every entry filterLeaderboard returns has a performance for the
\* filter's time window and meets every threshold the filter gives, and the
\* result has at most filter.maxAccounts entries.
C32_FilterMeetsThresholdsAndCount ==
    fOut # None =>
        LET filter == fIn[1].filter
            out == fOut[1]
            meets(e) ==
                LET performance == performanceOf(e, windowOf(filter))
                IN /\ performance # None
                   /\ filter.minAccountValue # None
                          => e.accountValue >= filter.minAccountValue[1]
                   /\ filter.minVolume # None
                          => performance[1].vlm >= filter.minVolume[1]
                   /\ filter.minPnL # None
                          => performance[1].pnl >= filter.minPnL[1]
                   /\ filter.minRoi # None
                          => performance[1].roi >= filter.minRoi[1]
        IN /\ \A i \in 1..Len(out) : meets(out[i].entry)
           /\ filter.maxAccounts # None => Len(out) <= filter.maxAccounts[1]

\* C33: when refreshes overlap, a refresh that began earlier never replaces
\* the mappings installed by a refresh that began later: the generation
\* installed in the registry never goes back.
C33_LaterRefreshWins ==
    [][/\ conv'.exchangeToInternalNameMap.id >= conv.exchangeToInternalNameMap.id
       /\ conv'.assetToIndexMap.id >= conv.assetToIndexMap.id]_vars

\* C34: a postRequest that has settled was settled by a matching frame, a
\* send failure or its timeout, and its message listener is no longer
\* registered on the client.
C34_SettledWithoutListener ==
    \A i \in 1..Len(posts) :
        posts[i].status # "pending"
            => /\ posts[i].reason \in {"response", "error", "send", "timeout"}
               /\ ~posts[i].listener

\* C35: a dispatched action was signed and carries, for each of its symbols,
\* the asset index the registry held when the action looked it up; an action
\* with a symbol the registry did not hold is neither signed nor dispatched.
C35_DispatchCarriesLookedUpIndex ==
    \A k \in 1..Len(actions) :
        LET a == actions[k].op
            held == actions[k].held
        IN /\ a.dispatched
               => /\ a.signed
                  /\ Len(a.carried) = Len(a.symbols)
                  /\ \A i \in 1..Len(a.symbols) : <<a.carried[i]>> = held[i]
           /\ (\E i \in 1..Len(a.symbols) : held[i] = None)
                  => ~a.signed /\ ~a.dispatched /\ a.pc = "threw"

\* an action of two symbols dispatched after a refresh took its first symbol
\* out of the registry, and an action that threw for its second symbol
C35_Witness ==
    \E k \in 1..Len(actions) :
        LET a == actions[k].op
        IN \/ /\ a.dispatched
              /\ Len(a.symbols) = 2
              /\ getAssetIndex(conv, a.symbols[1]) = None
           \/ /\ a.pc = "threw"
              /\ Len(a.symbols) = 2
              /\ actions[k].held[1] # None
              /\ actions[k].held[2] = None

(***************************************************************************)
(* C36: in every reachable state of WebSocketClient reconnectAttempts is   *)
(* at most maxReconnectAttempts and at most one reconnect loop is active;  *)
(* reconnectAttempts is 0 after every step in which a socket opens; the    *)
(* ping timer (one handle, pingInterval) runs only while the socket the    *)
(* client holds is open.                                                   *)
(***************************************************************************)
C36_ReconnectAndPingBounded ==
    /\ [](/\ wsc.reconnectAttempts <= maxReconnectAttempts
          /\ Len(wsc.loops) <= 1
          /\ wsc.pingInterval => isConnected(wsc))
    /\ [][(\E s \in 1..Len(wsc.sockets) :
               /\ wsc.sockets[s].state = "connecting"
               /\ wsc'.sockets[s].state = "open")
          => wsc'.reconnectAttempts = 0]_vars

(***************************************************************************)
(* C37: after the socket the client holds has closed, with close() never   *)
(* called, the client eventually has an open socket again or has stopped   *)
(* retrying after 'maxReconnectAttemptsReached'; and every reconnect()     *)
(* that emits 'maxReconnectAttemptsReached' has made exactly               *)
(* maxReconnectAttempts attempts. Runs that use up the MaxSockets sockets  *)
(* of the model are left aside.                                            *)
(***************************************************************************)
C37_ReopensOrGivesUpAfterMaxAttempts ==
    /\ [](wsc.reached \in {-1, maxReconnectAttempts})
    /\ (wsc.ws # 0 /\ wsc.sockets[wsc.ws].state = "closed")
           ~> \/ isConnected(wsc)
              \/ /\ wsc.reached # -1
                 /\ ~wsc.isReconnecting
                 /\ wsc.loops = <<>>
              \/ Len(wsc.sockets) = MaxSockets

(***************************************************************************)
(* C38: the calls made while no socket is open share one attempt -- at     *)
(* most one socket is connecting, and every call awaiting a connecting     *)
(* socket awaits the promise the client holds -- and connect() never       *)
(* hands the user the promise of an attempt that has already failed.       *)
(***************************************************************************)
C38_OneAttemptSharedAndFresh ==
    /\ Cardinality({s \in 1..Len(wsc.sockets) :
                        wsc.sockets[s].state = "connecting"}) <= 1
    /\ \A i \in 1..Len(wsc.sends) :
           wsc.sockets[wsc.sends[i].p].state = "connecting"
               => wsc.sends[i].p = wsc.connectionPromise
    /\ \A i \in 1..Len(wsc.loops) :
           wsc.sockets[wsc.loops[i].p].state = "connecting"
               => wsc.loops[i].p = wsc.connectionPromise
    /\ wsc.returned.promise # "rejected"

(***************************************************************************)
(* C39: forward translation is idempotent on the registry a refresh        *)
(* built: convertSymbol of a translated symbol is that symbol again, for   *)
(* every probed string, and translating a translated payload once more     *)
(* gives the same payload.                                                 *)
(***************************************************************************)
C39_ForwardIdempotent ==
    /\ \A s \in Probe \cup OrderCoins :
           convertSymbol(conv, convertSymbol(conv, s, ""), "")
               = convertSymbol(conv, s, "")
    /\ tOut # None =>
           convertSymbolsInObject(conv, tOut[1], tFields) = tOut[1]

\* an order whose coin, side and price were all translated, against a
\* registry that lists a perpetual and a spot market
C39_Witness ==
    /\ Len(E2I) >= 2
    /\ tFields = DefaultFields
    /\ tIn = JObj(<<<<"coin", JStr(<<"A", "-", "0">>)>>,
                    <<"side", JStr(<<"A">>)>>,
                    <<"px", JStr(<<"-", "1", ".", "5", "0">>)>>>>)
    /\ tOut = Some(JObj(<<<<"coin", JStr(<<"A", "-", "P", "E", "R", "P", "-", "0">>)>>,
                          <<"side", JStr(<<"s", "e", "l", "l">>)>>,
                          <<"px", JNum(TRUE, 15, 1)>>>>))

====
